---- MODULE Spec2Model ----
(***************************************************************************)
(* A model of SyzMini's program minimization engine (prog.Minimize).       *)
(* Two variants of the engine exist in the repository:                     *)
(*   "collect" : src/collect/syzkaller_influence/prog/minimization.go      *)
(*               (removeCalls_optimize with dynamic influence learning,    *)
(*                resetCallProps, minimizeCallProps)                       *)
(*   "syzmini" : src/unnamed/part_000                                      *)
(*               (removeCalls with removeUnrelatedCalls, whole-array       *)
(*                emptying, no call-property steps)                        *)
(* One minimization session is a state machine whose steps are the oracle  *)
(* calls of the engine; the oracle's answers and its telemetry are chosen  *)
(* nondeterministically.                                                   *)
(***************************************************************************)
EXTENDS Integers, Sequences, FiniteSets, TLC

VARIABLES
    variant,    \* which Minimize is running: "collect" or "syzmini"
    crash,      \* Minimize's crash parameter
    enable,     \* Influence_Learning_Enable
    P0,         \* the program Minimize was called with
    K0,         \* the call index Minimize was called with
    M0,         \* the influence matrix when the session started
    p0,         \* the baseline program (p0 / *ctx.p0)
    k,          \* callIndex0 as the session adjusts it
    M,          \* Target.InfluenceMatrix
    flag,       \* influence_update_flag
    pc,         \* position in Minimize
    i,          \* loop index (pairwise loop, or the per-call loop of Minimize)
    front,      \* remove_front_ids
    post,       \* remove_post_ids
    p,          \* ctx.p, the working copy
    aliased,    \* *ctx.p0 == ctx.p (the same program object)
    tried,      \* ctx.triedPaths
    blob,       \* the blob halving loop: [loc, key, len0, step]
    props,      \* minimizeCallProps: props captured at entry and next knob
    last,       \* the latest oracle call: what was proposed and answered
    okProg,     \* the latest program the oracle accepted
    accepted,   \* some oracle call of the session returned true
    ncalls,     \* number of oracle calls made so far
    peer,       \* a concurrent session's pairwise stage sharing the matrix
    pred,       \* the oracle Minimize was called with (pred0)
    thr,        \* the least buffer length a length-threshold oracle accepts
    seen,       \* the phases and calls of the oracle calls made so far
    execs,      \* what the executions of the tool's oracle returned, latest call
    host        \* the tool that drives the engine (Context.run)

vars == <<variant, crash, enable, P0, K0, M0, p0, k, M, flag, pc, i, front, post,
          p, aliased, tried, blob, props, last, okProg, accepted, ncalls, peer,
          pred, thr, seen, execs, host>>

(***************************************************************************)
(* Bounds of the model.                                                    *)
(***************************************************************************)
MaxCalls == 4       \* longest program made of light calls
MaxElems == 3       \* elements of the array argument
MaxBlob == 3        \* bytes of the blob argument
MaxHash == 2        \* coverage hashes range over 0..MaxHash
MaxLen == 5         \* longest buffer of the sessions of the threshold oracle

(***************************************************************************)
(* Typed argument model.  Every argument is a record of one shape; the     *)
(* fields a variant does not use keep their zero value.  The type          *)
(* descriptor an argument refers to (kind, RangeBegin, NoZ, ...) is        *)
(* immutable and is carried in the same record.                            *)
(***************************************************************************)
Arg0 ==
    [t |-> "none", name |-> "", dir |-> "in", val |-> 0, def |-> 0,
     cond |-> FALSE, opt |-> FALSE, inner |-> <<>>, akind |-> "", lo |-> 0,
     data |-> <<>>, noz |-> FALSE, varlen |-> FALSE, id |-> 0, ref |-> 0]

IntArg(n, v, d, c) == [Arg0 EXCEPT !.t = "int", !.name = n, !.val = v, !.def = d, !.cond = c]
FlagsArg(n, v, d) == [Arg0 EXCEPT !.t = "flags", !.name = n, !.val = v, !.def = d]
ProcArg(n, v, o) == [Arg0 EXCEPT !.t = "proc", !.name = n, !.val = v, !.opt = o]
LenArg(n, v) == [Arg0 EXCEPT !.t = "len", !.name = n, !.val = v]
PtrArg(n, res) == [Arg0 EXCEPT !.t = "ptr", !.name = n, !.inner = res]
StructArg(n, fields) == [Arg0 EXCEPT !.t = "struct", !.name = n, !.inner = fields]
UnionArg(n, option) == [Arg0 EXCEPT !.t = "union", !.name = n, !.inner = <<option>>]
ArrayArg(n, kind, lo, elems) ==
    [Arg0 EXCEPT !.t = "array", !.name = n, !.akind = kind, !.lo = lo, !.inner = elems]
BlobArg(n, d, kind, lo, bytes) ==
    [Arg0 EXCEPT !.t = "buffer", !.name = n, !.dir = d, !.akind = kind, !.lo = lo, !.data = bytes]
FilenameArg(n, d, bytes, noz, varlen) ==
    [Arg0 EXCEPT !.t = "buffer", !.name = n, !.dir = d, !.akind = "filename",
                 !.data = bytes, !.noz = noz, !.varlen = varlen]
\* A resource argument: a producer has an identity id > 0, a consumer refers
\* to its producer by ref (0 = a.Res is nil) and then holds val = 0.
ResArg(n, d, id, ref, def) ==
    [Arg0 EXCEPT !.t = "resource", !.name = n, !.dir = d, !.id = id, !.ref = ref,
                 !.def = def, !.val = IF ref = 0 THEN def ELSE 0]

DefaultProps == [FailNth |-> 0, Async |-> FALSE, Rerun |-> 0]

(***************************************************************************)
(* The target: syscall metadata.  Meta.ID indexes the influence matrix.    *)
(***************************************************************************)
Syscalls ==
    << [Name |-> "open_r",  NoMinimize |-> FALSE],
       [Name |-> "use_r",   NoMinimize |-> FALSE],
       [Name |-> "noop",    NoMinimize |-> FALSE],
       [Name |-> "pipe_r",  NoMinimize |-> FALSE],
       [Name |-> "write_b", NoMinimize |-> FALSE],
       [Name |-> "arr_a",   NoMinimize |-> FALSE],
       [Name |-> "st_s",    NoMinimize |-> FALSE],
       [Name |-> "zip_c",   NoMinimize |-> TRUE] >>

SysIds == 1..Len(Syscalls)
LightIds == {1, 2}

\* Bytes of a filename: NUL, the pad byte of specialFileLenPad, another byte.
NUL == 0
PadByte == 1
Ch == PadByte + 1

\* The producer visible to the call at position j: the nearest earlier call
\* that creates a resource (0 when there is none).
NearestProducer(shape, j) ==
    LET c == {x \in 1..(j - 1) : shape[x] \in {1, 4}}
    IN  IF c = {} THEN 0 ELSE CHOOSE x \in c : \A y \in c : y <= x

ElemVal(x) == IF x = 2 THEN 0 ELSE x

\* The arguments of one call of syscall s placed at position j; r is the
\* producer its resource arguments refer to.
CallArgs(s, j, r) ==
    CASE s = 1 -> << >>
      [] s = 2 -> << ResArg("fd", "in", 0, r, 3) >>
      [] s = 3 -> << >>
      [] s = 4 -> << PtrArg("fds", << ResArg("", "out", j, 0, 3) >>),
                     FilenameArg("file", "in", <<Ch>>, FALSE, TRUE) >>
      [] s = 5 -> << PtrArg("buf", << BlobArg("", "in", "blobrange", 1, [x \in 1..MaxBlob |-> Ch]) >>),
                     LenArg("n", MaxBlob) >>
      [] s = 6 -> << ArrayArg("a", "rand", 0, [x \in 1..MaxElems |-> IntArg("", ElemVal(x), 0, FALSE)]),
                     ArrayArg("b", "range", 2, [x \in 1..MaxElems |-> IntArg("", 0, 0, FALSE)]) >>
      [] s = 7 -> << StructArg("s", << IntArg("x", 5, 0, TRUE),
                                       ProcArg("pid", 1, TRUE),
                                       ProcArg("pid2", 1, FALSE),
                                       UnionArg("u", FlagsArg("f", 4, 0)),
                                       ResArg("r", "in", 0, r, 3),
                                       FilenameArg("path", "in", <<Ch, PadByte, NUL, NUL>>, FALSE, TRUE),
                                       FilenameArg("fixed", "in", <<Ch, NUL, NUL>>, FALSE, FALSE) >>) >>
      [] s = 8 -> << BlobArg("img", "in", "compressed", 0, <<Ch, Ch>>),
                     IntArg("v", 7, 0, FALSE),
                     ResArg("fd", "in", 0, r, 3) >>

CallProps(s) ==
    CASE s = 5 -> [FailNth |-> 0, Async |-> TRUE, Rerun |-> 1]
      [] s = 7 -> [FailNth |-> 2, Async |-> TRUE, Rerun |-> 1]
      [] s = 8 -> [FailNth |-> 0, Async |-> TRUE, Rerun |-> 0]
      [] OTHER -> DefaultProps

\* A call: Meta (the syscall id), Props, Args, the identity of its Ret
\* producer (0 = none) and uid, the position the call had in P0.
MkCall(shape, j) ==
    [meta |-> shape[j], uid |-> j, props |-> CallProps(shape[j]),
     ret |-> IF shape[j] = 1 THEN j ELSE 0,
     args |-> CallArgs(shape[j], j, NearestProducer(shape, j))]

Build(shape) == [j \in 1..Len(shape) |-> MkCall(shape, j)]

SeqsOver(S, n) == UNION {[1..m -> S] : m \in 1..n}

\* Programs of up to MaxCalls light calls (the call-level stages), and short
\* programs with the richer argument trees (the argument-level stage).
LightShapes == SeqsOver(LightIds, MaxCalls)
RichShapes ==
    {<<s>> : s \in SysIds \ LightIds}
        \cup {<<4, 2>>, <<4, 8>>, <<1, 8>>, <<8, 2>>, <<1, 7>>, <<3, 8, 8>>, <<5, 4>>}
        \cup {<<3>>, <<1, 2, 3, 3>>, <<3, 3, 1, 2>>, <<3, 3, 3, 2>>, <<1, 3, 2, 3, 3>>}
LightPrograms == {Build(sh) : sh \in LightShapes}
RichPrograms == {Build(sh) : sh \in RichShapes}

Name(call) == Syscalls[call.meta].Name
NoMinimize(call) == Syscalls[call.meta].NoMinimize

(***************************************************************************)
(* Programs and argument trees.  Call indices are 0-based as in the code;  *)
(* -1 is "no target call".                                                 *)
(***************************************************************************)
CallAt(prog, idx) == prog[idx + 1]

RECURSIVE GetIn(_, _)
\* The argument at location loc (child indices from the call's Args down).
GetIn(args, loc) ==
    IF Len(loc) = 1 THEN args[loc[1]] ELSE GetIn(args[loc[1]].inner, Tail(loc))

RECURSIVE PutIn(_, _, _)
PutIn(args, loc, new) ==
    IF Len(loc) = 1
    THEN [args EXCEPT ![loc[1]] = new]
    ELSE [args EXCEPT ![loc[1]] = [args[loc[1]] EXCEPT !.inner = PutIn(args[loc[1]].inner, Tail(loc), new)]]

RECURSIVE ProducerIds(_)
\* The resource producers inside an argument tree.
ProducerIds(a) ==
    (IF a.t = "resource" /\ a.id > 0 THEN {a.id} ELSE {})
        \cup UNION {ProducerIds(a.inner[x]) : x \in DOMAIN a.inner}

RECURSIVE ClearArg(_, _)
\* Every consumer of a producer in ids is cleared to its type's default.
ClearArg(a, ids) ==
    IF a.t = "resource" /\ a.ref \in ids
    THEN [a EXCEPT !.ref = 0, !.val = a.def]
    ELSE [a EXCEPT !.inner = [x \in DOMAIN a.inner |-> ClearArg(a.inner[x], ids)]]

ClearProg(prog, ids) ==
    [c \in DOMAIN prog |->
        [prog[c] EXCEPT !.args = [x \in DOMAIN prog[c].args |-> ClearArg(prog[c].args[x], ids)]]]

\* Fault: the copy without the truncation that follows it, which leaves the
\* last element twice.
DropAt_NoTruncate(seq, n) ==
    [x \in 1..Len(seq) |-> IF x < n \/ x = Len(seq) THEN seq[x] ELSE seq[x + 1]]

\* copy(a[i:], a[i+1:]); a = a[:len(a)-1], with n = i + 1
DropAt(seq, n) == [x \in 1..(Len(seq) - 1) |-> IF x < n THEN seq[x] ELSE seq[x + 1]]

\* removeArg on a subtree that leaves the program: its producers' users are
\* cleared to their defaults.
removeArg(prog, a) == ClearProg(prog, ProducerIds(a))

CallProducers(call) ==
    (IF call.ret > 0 THEN {call.ret} ELSE {})
        \cup UNION {ProducerIds(call.args[x]) : x \in DOMAIN call.args}

\* Prog.RemoveCall(idx): the call leaves the program with all its arguments.
RemoveCall(prog, idx) ==
    ClearProg(DropAt(prog, idx + 1), CallProducers(CallAt(prog, idx)))

\* Fault: of the calls to remove only the last one is removed.
RemoveCalls_Highest(prog, ids) ==
    IF ids = {} THEN prog
    ELSE [j \in 1..(Len(prog) - 1) |->
             IF j < 1 + CHOOSE x \in ids : \A y \in ids : y <= x THEN prog[j] ELSE prog[j + 1]]

RECURSIVE RemoveCalls(_, _)
\* RemoveCall for each index of ids, taken from the back to the front.
RemoveCalls(prog, ids) ==
    IF ids = {} THEN prog
    ELSE LET m == CHOOSE x \in ids : \A y \in ids : y <= x
         IN  RemoveCalls(RemoveCall(prog, m), ids \ {m})

Clone(prog) == prog

RECURSIVE NodeCount(_)
NodeCount(a) == 1 + (IF Len(a.inner) = 0 THEN 0 ELSE
                     LET S[n \in 0..Len(a.inner)] ==
                            IF n = 0 THEN 0 ELSE S[n - 1] + NodeCount(a.inner[n])
                     IN  S[Len(a.inner)])

(***************************************************************************)
(* Argument-level minimization: the depth-first traversal of one call.     *)
(* A traversal runs from the root of the call to the first shrink step it  *)
(* attempts; it returns that step (hit) together with the paths that       *)
(* ctx.do marked tried on the way, or reports that nothing is left (miss). *)
(* Paths are the "-field-3" strings of the code kept as token sequences.   *)
(***************************************************************************)
\* Fault: the path of an attempted step is not recorded.
Marked_Forget(tr, key) == tr

\* ctx.triedPaths[path] = true
Marked(tr, key) == tr \cup {key}

Miss(tr) == [hit |-> FALSE, tried |-> tr, kind |-> "", loc |-> <<>>, key |-> <<>>, e |-> 0]
Hit(kind, loc, key, e, tr) ==
    [hit |-> TRUE, tried |-> tr, kind |-> kind, loc |-> loc, key |-> key, e |-> e]

RECURSIVE TrimRight_NulOnly(_)
\* Fault: the trim stops at the pad bytes.
TrimRight_NulOnly(d) ==
    IF Len(d) > 0 /\ d[Len(d)] = NUL THEN TrimRight_NulOnly(SubSeq(d, 1, Len(d) - 1)) ELSE d

RECURSIVE TrimRight(_)
\* bytes.TrimRight(data, specialFileLenPad+"\x00")
TrimRight(d) ==
    IF Len(d) > 0 /\ d[Len(d)] \in {NUL, PadByte} THEN TrimRight(SubSeq(d, 1, Len(d) - 1)) ELSE d

\* Fault: the terminator is appended without the trim before it.
Normalize_NoTrim(d, noz) == IF noz THEN d ELSE Append(d, NUL)

\* The filename bytes BufferType.minimize proposes.
Normalize(d, noz) == IF noz THEN TrimRight(d) ELSE Append(TrimRight(d), NUL)

\* Fault: an integer is reset to its default even when it holds it.
minimizeInt_Always(arg, path, tr, loc) ==
    IF crash THEN Miss(tr) ELSE Hit("int", loc, path, 0, tr)

minimizeInt(arg, path, tr, loc) ==
    IF crash THEN Miss(tr)
    ELSE IF arg.val = arg.def THEN Miss(tr)
    ELSE Hit("int", loc, path, 0, tr)

\* Fault: resource arguments are left alone.
ResourceMinimize_Never(arg, path, tr, loc) == Miss(tr)

ResourceMinimize(arg, path, tr, loc) ==
    IF crash THEN Miss(tr)
    ELSE IF arg.ref = 0 THEN Miss(tr)
    ELSE Hit("res", loc, path, 0, tr)

BufferMinimize(arg, path, tr, loc) ==
    IF arg.dir = "out" THEN Miss(tr)
    ELSE IF arg.akind = "compressed" THEN Hit("panic", loc, path, 0, tr)
    ELSE IF arg.akind \in {"blobrand", "blobrange"}
         THEN IF Len(arg.data) > arg.lo THEN Hit("blob", loc, path, 0, tr) ELSE Miss(tr)
    ELSE IF arg.akind = "filename"
         THEN IF ~arg.varlen THEN Miss(tr)
              ELSE IF Normalize(arg.data, arg.noz) = arg.data THEN Miss(tr)
              ELSE Hit("fname", loc, path, 0, tr)
    ELSE Miss(tr)

\* Fault: the whole-array step does not look at the low bound.
AllStep_AnyLow(arg, path, tr) ==
    /\ variant = "syzmini"
    /\ Len(arg.inner) >= 3
    /\ Append(path, "all") \notin tr

\* The whole-array step exists in src/unnamed/part_000 only.
AllStep(arg, path, tr) ==
    /\ variant = "syzmini"
    /\ Len(arg.inner) >= 3
    /\ arg.lo = 0
    /\ Append(path, "all") \notin tr

\* Fault: the pointee is entered without the NULL proposal before it.
PtrStep_Skip(arg, path, tr) == FALSE

\* PtrType.minimize: "if path1 := path + ">"; !ctx.triedPaths[path1]"
PtrStep(arg, path, tr) == Append(path, ">") \notin tr

\* Fault: the removal of an element is tried again on every traversal.
ElemStep_Retry(arg, elemPath, tr) ==
    /\ ~crash
    /\ (arg.akind = "rand" \/ (arg.akind = "range" /\ Len(arg.inner) > arg.lo))

\* The guard of the removal of one array element.
ElemStep(arg, elemPath, tr) ==
    /\ ~crash
    /\ elemPath \notin tr
    /\ (arg.akind = "rand" \/ (arg.akind = "range" /\ Len(arg.inner) > arg.lo))

RECURSIVE Do(_, _, _, _, _), TypeMinimize(_, _, _, _), StructFrom(_, _, _, _, _),
          ArrayFrom(_, _, _, _, _)

\* minimizeArgsCtx.do
Do(arg, field, path, tr, loc) ==
    LET path1 == Append(path, field)
    IN  IF path1 \in tr THEN Miss(tr)
        ELSE LET r == TypeMinimize(arg, path1, tr, loc)
             IN  IF r.hit THEN r ELSE Miss(Marked(r.tried, path1))

\* StructType.minimize from field n on
StructFrom(arg, n, path, tr, loc) ==
    IF n > Len(arg.inner) THEN Miss(tr)
    ELSE LET r == Do(arg.inner[n], arg.inner[n].name, path, tr, Append(loc, n))
         IN  IF r.hit THEN r ELSE StructFrom(arg, n + 1, path, r.tried, loc)

\* The element loop of ArrayType.minimize, from element e (0-based) down to 0
ArrayFrom(arg, e, path, tr, loc) ==
    IF e < 0 THEN Miss(tr)
    ELSE LET elemPath == Append(path, ToString(e))
         IN  IF ElemStep(arg, elemPath, tr)
             THEN Hit("elem", loc, elemPath, e, Marked(tr, elemPath))
             ELSE LET r == Do(arg.inner[e + 1], "", elemPath, tr, Append(loc, e + 1))
                  IN  IF r.hit THEN r ELSE ArrayFrom(arg, e - 1, path, r.tried, loc)

\* arg.Type().minimize(ctx, arg, path), dispatched on the type
TypeMinimize(arg, path, tr, loc) ==
    CASE arg.t = "struct" -> StructFrom(arg, 1, path, tr, loc)
      [] arg.t = "union" -> Do(arg.inner[1], arg.inner[1].name, path, tr, Append(loc, 1))
      [] arg.t = "ptr" ->
            IF Len(arg.inner) = 0 THEN Miss(tr)
            ELSE IF PtrStep(arg, path, tr) THEN Hit("ptr", loc, Append(path, ">"), 0, tr)
            ELSE Do(arg.inner[1], "", path, tr, Append(loc, 1))
      [] arg.t = "array" ->
            IF AllStep(arg, path, tr)
            THEN Hit("all", loc, Append(path, "all"), 0, Marked(tr, Append(path, "all")))
            ELSE ArrayFrom(arg, Len(arg.inner) - 1, path, tr, loc)
      [] arg.t \in {"int", "flags"} -> minimizeInt(arg, path, tr, loc)
      [] arg.t = "proc" -> IF ~arg.opt THEN Miss(tr) ELSE minimizeInt(arg, path, tr, loc)
      [] arg.t = "resource" -> ResourceMinimize(arg, path, tr, loc)
      [] arg.t = "buffer" -> BufferMinimize(arg, path, tr, loc)
      [] OTHER -> Miss(tr)

RECURSIVE WalkFrom(_, _, _)
\* The loop of Minimize over ctx.call.Meta.Args, from argument j on
WalkFrom(args, j, tr) ==
    IF j > Len(args) THEN Miss(tr)
    ELSE LET r == Do(args[j], args[j].name, <<>>, tr, <<j>>)
         IN  IF r.hit THEN r ELSE WalkFrom(args, j + 1, r.tried)

\* Fault: the pointer keeps its pointee.
NullPointer_Keep(a) == a

\* MakeSpecialPointerArg(a.Type(), a.Dir(), 0): a pointer without a pointee
NullPointer(a) == [a EXCEPT !.inner = <<>>]

\* Fault: the whole-array step removes the last element only.
EmptyArray_DropLast(a) == [a EXCEPT !.inner = SubSeq(a.inner, 1, Len(a.inner) - 1)]

\* ArrayType.minimize of part_000: "a.Inner = nil"
EmptyArray(a) == [a EXCEPT !.inner = <<>>]

SetArg(prog, ci, loc, new) ==
    [prog EXCEPT ![ci + 1] = [prog[ci + 1] EXCEPT !.args = PutIn(prog[ci + 1].args, loc, new)]]

\* The working copy after the mutation of step r on call ci.
Apply(prog, ci, r) ==
    LET a == GetIn(CallAt(prog, ci).args, r.loc)
    IN  CASE r.kind = "ptr" ->
                removeArg(SetArg(prog, ci, r.loc, NullPointer(a)), a.inner[1])
          [] r.kind = "elem" ->
                removeArg(SetArg(prog, ci, r.loc, [a EXCEPT !.inner = DropAt(a.inner, r.e + 1)]),
                          a.inner[r.e + 1])
          [] r.kind = "all" ->
                ClearProg(SetArg(prog, ci, r.loc, EmptyArray(a)), ProducerIds(a))
          [] r.kind = "int" -> SetArg(prog, ci, r.loc, [a EXCEPT !.val = a.def])
          [] r.kind = "res" -> SetArg(prog, ci, r.loc, [a EXCEPT !.ref = 0, !.val = a.def])
          [] r.kind = "fname" ->
                SetArg(prog, ci, r.loc, [a EXCEPT !.data = Normalize(a.data, a.noz)])

(***************************************************************************)
(* The influence matrix and the call-level lists of removeCalls.           *)
(***************************************************************************)
ZeroMatrix == [s \in SysIds |-> [d \in SysIds |-> 0]]

\* The relation AnalyzeStaticInfluence computes for the syscalls above:
\* resource R is produced by open_r and pipe_r and consumed by use_r, st_s
\* and zip_c.
StaticMatrix ==
    [s \in SysIds |-> [d \in SysIds |->
        IF s \in {1, 4} /\ d \in {2, 7, 8} /\ s # d THEN 1 ELSE 0]]

Id(prog, idx) == CallAt(prog, idx).meta

\* The indices j < id with InfluenceMatrix[j][id] = 1, in the order the
\* loop "for j := id - 1; j >= 0; j--" meets them.
RECURSIVE Influencers(_, _, _, _)
Influencers(prog, mat, id, j) ==
    IF j < 0 THEN <<>>
    ELSE (IF mat[Id(prog, j)][Id(prog, id)] = 1 THEN <<j>> ELSE <<>>)
            \o Influencers(prog, mat, id, j - 1)

SeqRange(q) == {q[x] : x \in DOMAIN q}
SelectNotIn(q, S) == SelectSeq(q, LAMBDA x : x \notin S)

\* Fault: the queue is dropped, only the calls that influence the target
\* directly are kept.
Drain_Direct(prog, mat, queue, imap, qmap) == imap

RECURSIVE Drain(_, _, _, _, _)
\* The loop "for queue.Length() > 0": imap is influence_map, qmap queue_map.
Drain(prog, mat, queue, imap, qmap) ==
    IF Len(queue) = 0 THEN imap
    ELSE LET id == Head(queue)
             js == Influencers(prog, mat, id, id - 1)
         IN  Drain(prog, mat, Tail(queue) \o SelectNotIn(js, qmap), imap \cup SeqRange(js), qmap)

RECURSIVE InfluenceFrom(_, _, _, _, _, _)
\* The loop "for i := callIndex0 - 1; i >= 0; i--" building influence_map.
InfluenceFrom(prog, mat, k0, n, imap, qmap) ==
    IF n < 0 THEN imap
    ELSE IF mat[Id(prog, n)][Id(prog, k0)] = 1
         THEN InfluenceFrom(prog, mat, k0, n - 1,
                            Drain(prog, mat, <<n>>, imap \cup {n}, qmap \cup {n}), qmap \cup {n})
         ELSE InfluenceFrom(prog, mat, k0, n - 1, imap, qmap)

InfluenceMap(prog, mat, k0) == InfluenceFrom(prog, mat, k0, k0 - 1, {}, {})

RemoveFrontIds(prog, mat, k0) ==
    {n \in 0..(k0 - 1) : n \notin InfluenceMap(prog, mat, k0)}

\* Fault: the suffix drop takes the target call with it.
RemovePostIds_Inclusive(prog, k0) ==
    IF k0 >= 0 /\ k0 + 2 < Len(prog) THEN k0..(Len(prog) - 1) ELSE {}

RemovePostIds(prog, k0) ==
    IF k0 >= 0 /\ k0 + 2 < Len(prog) THEN (k0 + 1)..(Len(prog) - 1) ELSE {}

(***************************************************************************)
(* removeUnrelatedCalls (src/unnamed/part_000).                            *)
(***************************************************************************)
Thing(kind, n, q) == [kind |-> kind, n |-> n, q |-> q]

RECURSIVE TrimNul(_)
\* bytes.TrimRight(a.Data(), "\x00")
TrimNul(d) == IF Len(d) > 0 /\ d[Len(d)] = NUL THEN TrimNul(SubSeq(d, 1, Len(d) - 1)) ELSE d

RECURSIVE ArgsWithLoc(_, _)
\* Every argument of a tree with its location, as ForeachArg visits them.
ArgsWithLoc(a, loc) ==
    {<<a, loc>>} \cup UNION {ArgsWithLoc(a.inner[x], Append(loc, x)) : x \in DOMAIN a.inner}

CallArgsWithLoc(call) == UNION {ArgsWithLoc(call.args[x], <<x>>) : x \in DOMAIN call.args}

\* The consumers of producer id anywhere in the program (a.uses).
UsersOf(prog, id) ==
    UNION {{Thing("arg", prog[c].uid, al[2]) : al \in
                {x \in CallArgsWithLoc(prog[c]) : x[1].t = "resource" /\ x[1].ref = id}}
           : c \in DOMAIN prog}

\* uses(call)
uses(prog, call) ==
    UNION {LET a == al[1]
           IN  IF a.t = "resource"
               THEN (IF a.id > 0
                     THEN {Thing("prod", a.id, <<>>)} \cup UsersOf(prog, a.id)
                     ELSE {Thing("arg", call.uid, al[2])})
                    \cup (IF a.ref > 0 THEN {Thing("prod", a.ref, <<>>)} ELSE {})
               ELSE IF a.t = "buffer" /\ a.dir # "out" /\ a.akind = "filename"
               THEN {Thing("file", 0, TrimNul(a.data))}
               ELSE {}
           : al \in CallArgsWithLoc(call)}
    \cup (IF call.ret > 0 THEN {Thing("prod", call.ret, <<>>)} \cup UsersOf(prog, call.ret) ELSE {})

intersects(list, list1) == list \cap list1 # {}

RECURSIVE RelatedPass(_, _, _, _)
\* One pass "for i, call := range p0.Calls" of relatedCalls, from call idx on.
RelatedPass(prog, idx, keep, used) ==
    IF idx >= Len(prog) THEN [keep |-> keep, used |-> used]
    ELSE IF idx \in keep THEN RelatedPass(prog, idx + 1, keep, used)
    ELSE LET used1 == uses(prog, CallAt(prog, idx))
         IN  IF intersects(used, used1)
             THEN RelatedPass(prog, idx + 1, keep \cup {idx}, used \cup used1)
             ELSE RelatedPass(prog, idx + 1, keep, used)

RECURSIVE RelatedLoop(_, _, _)
RelatedLoop(prog, keep, used) ==
    LET r == RelatedPass(prog, 0, keep, used)
    IN  IF Cardinality(r.used) = Cardinality(used) THEN r.keep
        ELSE RelatedLoop(prog, r.keep, r.used)

\* Fault: only the calls that share something with the target itself are
\* kept.
relatedCalls_Direct(prog, k0) ==
    RelatedPass(prog, 0, {k0}, uses(prog, CallAt(prog, k0))).keep
        \ {x \in 0..(Len(prog) - 1) :
              x # k0 /\ ~intersects(uses(prog, CallAt(prog, k0)), uses(prog, CallAt(prog, x)))}

relatedCalls(prog, k0) == RelatedLoop(prog, {k0}, uses(prog, CallAt(prog, k0)))

(***************************************************************************)
(* The session.                                                            *)
(***************************************************************************)
cfg == <<variant, crash, enable, P0, K0, M0, pred, thr>>
orc == <<last, okProg, accepted, ncalls, seen, execs>>
ctxv == <<p, aliased, tried, blob, props>>
lists == <<front, post>>

NoCall == [kind |-> "none", ans |-> FALSE, prog |-> <<>>, idx |-> -1,
           status |-> FALSE, hp |-> 0, hp0 |-> 0]
NoBlob == [loc |-> <<>>, key |-> <<>>, len0 |-> 0, step |-> 0]
NoProps == [entry |-> DefaultProps, knob |-> 0]
NoPeer == [pc |-> "off", p0 |-> <<>>, k |-> -1, i |-> -1, q |-> <<>>, idx |-> -1,
           ans |-> FALSE, status |-> FALSE, hp |-> 0, hp0 |-> 0,
           pending |-> FALSE, s |-> 0, d |-> 0, wrote |-> FALSE]

\* The kinds of proposal of the argument-level traversal and of
\* minimizeCallProps, as recorded with each oracle call.
ArgKinds == {"ptr", "elem", "all", "int", "res", "fname", "blob"}
PropKinds == {"failnth", "async", "rerun"}
CallKinds == {"post", "front", "unrelated", "pair"}

\* The minimize_type_flag a proposal carries in src/unnamed/part_000: 1 in
\* removeCalls and removeUnrelatedCalls, 2 in the minimize methods.
StepKind(kind) == IF kind \in CallKinds THEN 1 ELSE 2

\* The part of Minimize a proposal comes from.
Phase(kind) ==
    CASE kind \in CallKinds -> "calls"
      [] kind = "reset" -> "reset"
      [] kind \in ArgKinds -> "args"
      [] kind \in PropKinds -> "props"

\* The length of the buffer of a program of one call whose first argument
\* points to a buffer; -1 when the program has no such buffer.
BufferLen(prog) ==
    IF /\ Len(prog) = 1
       /\ Len(prog[1].args) > 0
       /\ prog[1].args[1].t = "ptr"
       /\ Len(prog[1].args[1].inner) = 1
       /\ prog[1].args[1].inner[1].t = "buffer"
    THEN Len(prog[1].args[1].inner[1].data)
    ELSE -1

\* The target call of proposal q is in q with the arguments the target call
\* of P0 has: what it executes, and so the signal it leaves, is unchanged.
SignalKept(q, idx) ==
    /\ K0 \in 0..(Len(P0) - 1)
    /\ idx \in 0..(Len(q) - 1)
    /\ q[idx + 1].meta = P0[K0 + 1].meta
    /\ q[idx + 1].args = P0[K0 + 1].args

\* What pred0 can answer on proposal q with target index idx.  Minimize
\* takes the oracle as a parameter: "any" is an arbitrary function, "accept"
\* the one that accepts every proposal, "atleast" the one that accepts
\* exactly the programs whose buffer keeps at least thr bytes, "signal" the
\* one that accepts exactly the programs in which the signal of the target
\* call is unchanged, "tool" the closure Context.run passes.
Answers(q, idx) ==
    CASE pred = "accept" -> {TRUE}
      [] pred = "atleast" -> {BufferLen(q) >= thr}
      [] pred = "signal" -> {SignalKept(q, idx)}
      [] OTHER -> BOOLEAN

\* What one env.Exec leaves for the closure: info is nil, or it has no call
\* results, or it has them and hash is GetHash_uint32 of the target call's
\* signal.
Infos ==
    {[nil |-> TRUE, calls |-> 0, hash |-> 0], [nil |-> FALSE, calls |-> 0, hash |-> 0]}
        \cup {[nil |-> FALSE, calls |-> 1, hash |-> h] : h \in 0..MaxHash}

reexecutionSuccess(info) == ~(info.nil \/ info.calls = 0)

\* "for i := 0; i < 3; i++"
PredTries == 3

\* Fault: the closure goes on executing after a match and answers with the
\* last execution.
RECURSIVE PredFrom_Last(_, _, _)
PredFrom_Last(outs, n, h0) ==
    IF n >= PredTries
    THEN [ans |-> reexecutionSuccess(outs[PredTries]) /\ outs[PredTries].hash = h0,
          execs |-> outs]
    ELSE PredFrom_Last(outs, n + 1, h0)

RECURSIVE PredFrom(_, _, _)
\* The closure Context.run passes to Minimize, from its execution n on; outs
\* are the results the executions return, h0 is call_index_hash.  It
\* answers and tells which executions it made.
PredFrom(outs, n, h0) ==
    IF n > PredTries THEN [ans |-> FALSE, execs |-> outs]
    ELSE IF ~reexecutionSuccess(outs[n]) THEN PredFrom(outs, n + 1, h0)
    ELSE IF outs[n].hash = h0 THEN [ans |-> TRUE, execs |-> SubSeq(outs, 1, n)]
    ELSE PredFrom(outs, n + 1, h0)

NoInfo == [nil |-> TRUE, calls |-> 0, hash |-> 0]

\* The tool around the engine when no tool runs: the fields of Context and
\* the locals of Context.run and execute_consume.
NoHost == [pc |-> "off", run |-> 1, shutdown |-> FALSE, mark |-> 0, pos |-> 0,
           idx |-> -1, try |-> 0, nexec |-> 0, err |-> "", info |-> NoInfo,
           file |-> {}, index_map |-> {}, finished |-> {}, hash0 |-> 0,
           schemas |-> <<>>, matrix |-> <<>>, proportion |-> 100, ones |-> 0,
           zeroed |-> 0]

\* pred(q, idx) answered ans; st, h1, h2 are the telemetry the oracle left
\* (Minimize_ExecuteStatus, Minimize_CallsCovHash of q and of the baseline).
Oracle(kind, q, idx, ans, st, h1, h2) ==
    /\ ans \in Answers(q, idx)
    /\ IF pred = "tool"
       THEN \E outs \in [1..PredTries -> Infos] :
              LET r == PredFrom(outs, 1, host.hash0)
              IN  ans = r.ans /\ execs' = r.execs
       ELSE execs' = <<>>
    /\ last' = [kind |-> kind, ans |-> ans, prog |-> q, idx |-> idx,
                status |-> st, hp |-> h1, hp0 |-> h2]
    /\ okProg' = IF ans THEN q ELSE okProg
    /\ accepted' = (accepted \/ ans)
    /\ ncalls' = ncalls + 1
    /\ seen' = seen \cup {<<Phase(kind), IF kind \in ArgKinds \cup PropKinds THEN i ELSE -1>>}

\* Fault: the proposal is committed whatever the oracle answered.
Commit_Always(ans, q, base) == q

\* "if pred(p, callIndex) { p0 = p }": the baseline after the answer.
Commit(ans, q, base) == IF ans THEN q ELSE base

\* Fault: the target index follows the proposal whatever the oracle answered.
CommitIndex_Always(ans, callIndex, cur) == callIndex

\* "if pred(p, callIndex) { callIndex0 = callIndex }"
CommitIndex(ans, callIndex, cur) == IF ans THEN callIndex ELSE cur

\* Fault: the target index is not moved when an earlier call is removed.
PairIndex_NoShift(idx, cur) == cur

\* "callIndex := callIndex0; if i < callIndex { callIndex-- }"
PairIndex(idx, cur) == IF idx < cur THEN cur - 1 ELSE cur

\* Fault: the first call is never proposed for removal.
SkipPair_First(idx, cur) == idx = cur \/ idx = 0

\* The pairwise loop: "if i == callIndex0 { continue }"
SkipPair(idx, cur) == idx = cur

\* Fault: calls marked no_minimize are traversed like any other.
SkipCall_Never(call) == FALSE

\* "if p0.Calls[i].Meta.Attrs.NoMinimize { continue }"
SkipCall(call) == NoMinimize(call)

\* The ways Minimize ends: it returns ("done") or panics with a message.
BadIndex == "bad call index"
BadIndexAfter == "bad call index after minimization"
NoMinimizePanic == "minimizing no_minimize call"
SharedPanic == "shared program committed"
StalePanic == "iterating over stale program"
Panics == {BadIndex, BadIndexAfter, NoMinimizePanic, SharedPanic, StalePanic}
Terminated == pc = "done" \/ pc \in Panics

\* What the caller of Minimize gets: at "return p0, callIndex0" the baseline
\* and the index; a panic unwinds the caller as well and hands it nothing.
Outcome ==
    [returned |-> pc = "done",
     prog |-> IF pc = "done" THEN p0 ELSE <<>>,
     idx |-> IF pc = "done" THEN k ELSE -1,
     panic |-> IF pc \in Panics THEN pc ELSE ""]

\* The arguments Minimize is called with, and the engine and the matrix.
Params ==
    /\ variant \in {"collect", "syzmini"}
    /\ \/ /\ P0 \in LightPrograms
          /\ enable \in (IF variant = "collect" THEN BOOLEAN ELSE {FALSE})
          /\ M0 \in (IF variant = "collect" THEN {StaticMatrix, ZeroMatrix} ELSE {StaticMatrix})
       \/ /\ P0 \in RichPrograms
          /\ enable = FALSE
          /\ M0 = StaticMatrix
    /\ K0 \in -1..Len(P0)
    /\ crash \in (IF K0 = -1 THEN BOOLEAN ELSE {FALSE})

\* The session when Minimize is entered with P0, K0 and M0.
Entry ==
    /\ p0 = P0
    /\ k = K0
    /\ M = M0
    /\ flag = FALSE
    /\ pc = "start"
    /\ i = 0
    /\ front = {}
    /\ post = {}
    /\ p = P0
    /\ aliased = FALSE
    /\ tried = {}
    /\ blob = NoBlob
    /\ props = NoProps
    /\ last = NoCall
    /\ okProg = P0
    /\ accepted = FALSE
    /\ ncalls = 0
    /\ seen = {}
    /\ execs = <<>>

Init ==
    /\ Params
    /\ Entry
    /\ peer = NoPeer
    /\ pred = "any"
    /\ thr = 0
    /\ host = NoHost

\* Minimize up to the call of removeCalls: the index check and the lists.
Start ==
    /\ pc = "start"
    /\ IF K0 # -1 /\ (K0 < 0 \/ K0 >= Len(P0))
       THEN /\ pc' = BadIndex
            /\ UNCHANGED lists
       ELSE /\ pc' = "post"
            /\ post' = RemovePostIds(p0, k)
            /\ front' = RemoveFrontIds(p0, M, k)
    /\ UNCHANGED <<cfg, host, orc, ctxv, p0, k, M, flag, i, peer>>

\* "remove post calls": every call after the target in one proposal.
RemovePost ==
    /\ pc = "post"
    /\ pc' = IF variant = "collect" THEN "front" ELSE "unrelated"
    /\ IF post = {}
       THEN UNCHANGED <<p0, orc>>
       ELSE \E ans \in BOOLEAN :
              LET q == RemoveCalls(Clone(p0), post)
              IN  /\ Oracle("post", q, k, ans, FALSE, 0, 0)
                  /\ p0' = Commit(ans, q, p0)
    /\ UNCHANGED <<cfg, host, ctxv, lists, k, M, flag, i, peer>>

\* "remove front calls" of removeCalls_optimize.
RemoveFront ==
    /\ pc = "front"
    /\ pc' = "pair"
    /\ IF front = {}
       THEN UNCHANGED <<p0, k, orc>>
       ELSE \E ans \in BOOLEAN :
              LET q == RemoveCalls(Clone(p0), front)
                  callIndex == k - Cardinality(front)
              IN  /\ Oracle("front", q, callIndex, ans, FALSE, 0, 0)
                  /\ p0' = Commit(ans, q, p0)
                  /\ k' = CommitIndex(ans, callIndex, k)
    /\ i' = Len(p0') - 1
    /\ UNCHANGED <<cfg, host, ctxv, lists, M, flag, peer>>

\* removeUnrelatedCalls, called by removeCalls of part_000 when callIndex0 # -1.
RemoveUnrelated ==
    /\ pc = "unrelated"
    /\ pc' = "pair"
    /\ IF k = -1
       THEN UNCHANGED <<p0, k, orc>>
       ELSE LET keepCalls == relatedCalls(p0, k)
                drop == (0..(Len(p0) - 1)) \ keepCalls
            IN  IF Len(p0) - Cardinality(keepCalls) < 3
                THEN UNCHANGED <<p0, k, orc>>
                ELSE \E ans \in BOOLEAN :
                       LET q == RemoveCalls(Clone(p0), drop)
                           callIndex == k - Cardinality({x \in drop : x < k})
                       IN  /\ Oracle("unrelated", q, callIndex, ans, FALSE, 0, 0)
                           /\ p0' = Commit(ans, q, p0)
                           /\ k' = CommitIndex(ans, callIndex, k)
    /\ i' = Len(p0') - 1
    /\ UNCHANGED <<cfg, host, ctxv, lists, M, flag, peer>>

\* Fault: two different hashes count even when one of them is 0.
Diverges_AnyHash(base, q, idx, ans, en, st, h1, h2) ==
    /\ ~ans
    /\ en /\ st /\ idx < Len(q) /\ idx + 1 < Len(base)
    /\ h1 # h2

\* A rejected removal of call idx after which the call that followed it in
\* the baseline covered different code in the proposal: the conditions
\* around the read of the matrix.
Diverges(base, q, idx, ans, en, st, h1, h2) ==
    /\ ~ans
    /\ en /\ st /\ idx < Len(q) /\ idx + 1 < Len(base)
    /\ h1 # h2 /\ h1 # 0 /\ h2 # 0

\* The condition under which the iteration writes the matrix: the entry of
\* (removed call, call after it) is still 0.
Learns(base, q, idx, mat, ans, en, st, h1, h2) ==
    /\ Diverges(base, q, idx, ans, en, st, h1, h2)
    /\ mat[Id(base, idx)][Id(base, idx + 1)] = 0

\* Fault: the flag is raised outside the test of the entry.
Flagged_Outside(base, q, idx, mat, ans, en, st, h1, h2) ==
    Diverges(base, q, idx, ans, en, st, h1, h2)

\* influence_update_flag = true, inside the test of the entry
Flagged(base, q, idx, mat, ans, en, st, h1, h2) ==
    Learns(base, q, idx, mat, ans, en, st, h1, h2)

\* InfluenceMatrix[s][d] = 1
Store(mat, s, d) == [mat EXCEPT ![s] = [mat[s] EXCEPT ![d] = 1]]

\* Fault: the entry is flipped instead of set, and without the test.
Learned_Flip(base, q, idx, mat, ans, en, st, h1, h2) ==
    IF Diverges(base, q, idx, ans, en, st, h1, h2)
    THEN [mat EXCEPT ![Id(base, idx)] =
             [mat[Id(base, idx)] EXCEPT ![Id(base, idx + 1)] = 1 - mat[Id(base, idx)][Id(base, idx + 1)]]]
    ELSE mat

\* The matrix after the removal of call idx was answered.
Learned(base, q, idx, mat, ans, en, st, h1, h2) ==
    IF Learns(base, q, idx, mat, ans, en, st, h1, h2)
    THEN Store(mat, Id(base, idx), Id(base, idx + 1))
    ELSE mat

Hashes == 0..MaxHash

\* One iteration of the loop "for i := len(p0.Calls) - 1; i >= 0; i--", up
\* to the return of pred: the proposal and what the oracle left behind.
Pairwise ==
    /\ pc = "pair"
    /\ IF i < 0
       THEN /\ pc' = IF variant = "collect" THEN "reset" ELSE "args"
            /\ i' = 0
            /\ UNCHANGED orc
       ELSE IF SkipPair(i, k)
       THEN /\ i' = i - 1
            /\ UNCHANGED <<pc, orc>>
       ELSE \E ans, st \in BOOLEAN, h1, h2 \in Hashes :
              LET q == RemoveCall(Clone(p0), i)
                  callIndex == PairIndex(i, k)
                  en == variant = "collect" /\ enable
              IN  /\ (en /\ ~ans /\ st) \/ (h1 = 0 /\ h2 = 0)
                  /\ (en /\ ~ans) \/ ~st
                  /\ Oracle("pair", q, callIndex, ans, st, h1, h2)
                  /\ pc' = "learn"
                  /\ UNCHANGED i
    /\ UNCHANGED <<cfg, host, ctxv, lists, p0, k, M, flag, peer>>

\* The rest of the iteration: a rejected removal may teach the matrix, an
\* accepted one is committed; the telemetry flags are reset.
PairwiseAnswer ==
    /\ pc = "learn"
    /\ LET en == variant = "collect" /\ enable
       IN  /\ M' = Learned(p0, last.prog, i, M, last.ans, en, last.status, last.hp, last.hp0)
           /\ flag' = (flag \/ Flagged(p0, last.prog, i, M, last.ans, en, last.status, last.hp, last.hp0))
    /\ p0' = Commit(last.ans, last.prog, p0)
    /\ k' = CommitIndex(last.ans, last.idx, k)
    /\ i' = i - 1
    /\ pc' = "pair"
    /\ last' = [last EXCEPT !.status = FALSE, !.hp = 0, !.hp0 = 0]
    /\ UNCHANGED <<cfg, host, ctxv, lists, okProg, accepted, ncalls, seen, execs, peer>>

AllDefault(prog) == [c \in DOMAIN prog |-> [prog[c] EXCEPT !.props = DefaultProps]]

\* resetCallProps
ResetCallProps ==
    /\ pc = "reset"
    /\ pc' = "args"
    /\ i' = 0
    /\ LET q == AllDefault(Clone(p0))
           anyDifferent == \E c \in DOMAIN p0 : p0[c].props # DefaultProps
       IN  IF ~anyDifferent
           THEN UNCHANGED <<p0, orc>>
           ELSE \E ans \in BOOLEAN :
                  /\ Oracle("reset", q, k, ans, FALSE, 0, 0)
                  /\ p0' = Commit(ans, q, p0)
    /\ UNCHANGED <<cfg, host, ctxv, lists, k, M, flag, peer>>

\* The head of the loop "for i := 0; i < len(p0.Calls); i++" of Minimize:
\* a fresh context (empty triedPaths) and a clone of the baseline.
ArgLoop ==
    /\ pc = "args"
    /\ IF i >= Len(p0)
       THEN /\ pc' = "final"
            /\ UNCHANGED <<i, ctxv>>
       ELSE IF SkipCall(CallAt(p0, i))
       THEN /\ i' = i + 1
            /\ UNCHANGED <<pc, ctxv>>
       ELSE /\ pc' = "walk"
            /\ tried' = {}
            /\ p' = Clone(p0)
            /\ aliased' = FALSE
            /\ UNCHANGED <<i, blob, props>>
    /\ UNCHANGED <<cfg, host, orc, lists, p0, k, M, flag, peer>>

\* Fault: minimizeInt returns false when the oracle rejected, patched or not.
Returns_Unpatched(kind, ans, patched) == kind # "int" \/ ans

\* Fault: minimizeInt returns false after it committed.
Returns_NoRestart(kind, ans, patched) == kind # "int" \/ patched

\* What the minimize method that made the proposal returns: true at every
\* site but minimizeInt, which returns true after a commit and else patched.
Returns(kind, ans, patched) == kind # "int" \/ ans \/ patched

\* The steps that change the shape of the argument tree of the call.
Structural == {"ptr", "elem", "all"}

\* Fault: a structural commit or a conditional patch empties triedPaths.
TriedAfter_Reset(tr, key, structural, patched) ==
    IF structural \/ patched THEN {} ELSE Marked(tr, key)

\* ctx.triedPaths after a step: the map made at the head of the loop over
\* the calls is the one every restart at "again" goes on with.
TriedAfter(tr, key, structural, patched) == Marked(tr, key)

\* The working copy after "a.Val = v0" in minimizeInt: the value is put back,
\* what setDefaultConditions patched is not.  The patch is kept abstract:
\* the integer of a patched copy no longer has conditions to patch.
Unreset(prog, ci, loc, patched) ==
    IF patched
    THEN SetArg(prog, ci, loc, [GetIn(CallAt(prog, ci).args, loc) EXCEPT !.cond = FALSE])
    ELSE prog

\* Fault: the traversal restarts on the working copy it has mutated.
WorkingCopy_Dirty(again, base, q, cur) == IF again THEN q ELSE cur

\* The working copy after a step: "goto again" replaces it by a clone of the
\* baseline; minimizeInt, when it returns false, has put the value back
\* ("a.Val = v0"), which leaves the copy as it was before the step.
WorkingCopy(again, base, q, cur) == IF again THEN Clone(base) ELSE cur

\* Fault: the bulk reset of the call properties follows the traversal.
AfterWalk_Reset == "reset"

\* Where Minimize goes when the traversal of call i found nothing to try.
AfterWalk == IF variant = "collect" THEN "props" ELSE "args"

\* One traversal of call i of the working copy up to its first shrink step,
\* the oracle's answer and what the step does with it.  "patched" is what
\* setDefaultConditions returned for the integer that was reset.
Walk ==
    /\ pc = "walk"
    /\ LET r == WalkFrom(CallAt(p, i).args, 1, tried)
       IN  IF ~r.hit
           THEN \* every ctx.do returned false
                /\ pc' = IF variant = "collect" /\ aliased THEN SharedPanic ELSE AfterWalk
                /\ i' = IF variant = "collect" THEN i ELSE i + 1
                /\ tried' = r.tried
                /\ props' = IF variant = "collect"
                            THEN [entry |-> CallAt(p0, i).props, knob |-> 1]
                            ELSE props
                /\ UNCHANGED <<p0, p, aliased, blob, orc>>
           ELSE IF r.kind = "panic"
           THEN /\ pc' = NoMinimizePanic
                /\ UNCHANGED <<i, p0, ctxv, orc>>
           ELSE IF r.kind = "blob"
           THEN /\ pc' = "blob"
                /\ tried' = r.tried
                /\ blob' = LET a == GetIn(CallAt(p, i).args, r.loc)
                           IN  [loc |-> r.loc, key |-> r.key, len0 |-> Len(a.data),
                                step |-> Len(a.data) - a.lo]
                /\ UNCHANGED <<i, p0, p, aliased, props, orc>>
           ELSE \E ans \in BOOLEAN :
                  LET q == Apply(p, i, r)
                      patched == GetIn(CallAt(p, i).args, r.loc).cond
                      again == Returns(r.kind, ans, patched)
                  IN  /\ Oracle(r.kind, q, k, ans, FALSE, 0, 0)
                      /\ p0' = Commit(ans, q, p0)
                      /\ tried' = TriedAfter(r.tried, r.key, ans /\ r.kind \in Structural, patched)
                      /\ p' = WorkingCopy(again, p0', q, Unreset(p, i, r.loc, patched))
                      /\ aliased' = (ans /\ ~again)
                      /\ pc' = IF again \/ variant # "collect" THEN "walk"
                               ELSE IF aliased' THEN SharedPanic
                               ELSE IF p0' # p0 THEN StalePanic
                               ELSE "walk"
                      /\ UNCHANGED <<i, blob, props>>
    /\ UNCHANGED <<cfg, host, lists, k, M, flag, peer>>

SetData(prog, ci, loc, n) ==
    LET a == GetIn(CallAt(prog, ci).args, loc)
    IN  SetArg(prog, ci, loc, [a EXCEPT !.data = SubSeq(a.data, 1, n)])

\* Fault: a rejected trim ends the search.
Halve_Stop(step) == 0

\* "step /= 2"
Halve(step) == step \div 2

\* One iteration of the halving loop of BufferType.minimize.
BlobIter ==
    /\ pc = "blob"
    /\ LET a == GetIn(CallAt(p, i).args, blob.loc)
           len == Len(a.data)
           minLen == a.lo
           halved == [blob EXCEPT !.step = Halve(blob.step)]
       IN  IF ~(len > minLen /\ blob.step > 0)
           THEN /\ pc' = "blobend"
                /\ UNCHANGED <<p, blob, orc>>
           ELSE IF len - blob.step >= minLen
           THEN \E ans \in BOOLEAN :
                  LET q == SetData(p, i, blob.loc, len - blob.step)
                  IN  /\ Oracle("blob", q, k, ans, FALSE, 0, 0)
                      /\ p' = IF ans THEN q ELSE p
                      /\ blob' = IF ans THEN blob ELSE halved
                      /\ pc' = IF ~ans /\ crash THEN "blobend" ELSE "blob"
           ELSE /\ blob' = halved
                /\ pc' = IF crash THEN "blobend" ELSE "blob"
                /\ UNCHANGED <<p, orc>>
    /\ UNCHANGED <<cfg, host, lists, p0, k, M, flag, i, aliased, tried, props, peer>>

\* After the loop: "if len(a.Data()) != len0" commits the working copy.
BlobEnd ==
    /\ pc = "blobend"
    /\ LET a == GetIn(CallAt(p, i).args, blob.loc)
       IN  IF Len(a.data) # blob.len0
           THEN /\ p0' = p
                /\ p' = Clone(p)
                /\ pc' = "walk"
           ELSE /\ pc' = IF variant = "collect" /\ aliased THEN SharedPanic ELSE "walk"
                /\ UNCHANGED <<p0, p>>
    /\ tried' = Marked(tried, blob.key)
    /\ blob' = NoBlob
    /\ aliased' = FALSE
    /\ UNCHANGED <<cfg, host, orc, lists, k, M, flag, i, props, peer>>

\* Fault: the properties are written to every call of the clone.
SetProps_All(prog, ci, new) == [c \in DOMAIN prog |-> [prog[c] EXCEPT !.props = new]]

\* "p.Calls[callIndex].Props.FailNth = 0" and the like, on the clone.
SetProps(prog, ci, new) == [prog EXCEPT ![ci + 1] = [prog[ci + 1] EXCEPT !.props = new]]

\* minimizeCallProps(p0, i, callIndex0, pred), one knob per step; the knobs
\* are tested on the props copied at entry.
MinimizeCallProps ==
    /\ pc = "props"
    /\ LET cur == CallAt(p0, i).props
           set == CASE props.knob = 1 -> props.entry.FailNth > 0
                    [] props.knob = 2 -> props.entry.Async
                    [] props.knob = 3 -> props.entry.Rerun > 0
           new == CASE props.knob = 1 -> [cur EXCEPT !.FailNth = 0]
                    [] props.knob = 2 -> [cur EXCEPT !.Async = FALSE]
                    [] props.knob = 3 -> [cur EXCEPT !.Rerun = 0]
           kind == CASE props.knob = 1 -> "failnth"
                     [] props.knob = 2 -> "async"
                     [] props.knob = 3 -> "rerun"
       IN  IF ~set
           THEN UNCHANGED <<p0, orc>>
           ELSE \E ans \in BOOLEAN :
                  LET q == SetProps(Clone(p0), i, new)
                  IN  /\ Oracle(kind, q, k, ans, FALSE, 0, 0)
                      /\ p0' = Commit(ans, q, p0)
    /\ IF props.knob = 3
       THEN /\ pc' = "args"
            /\ i' = i + 1
            /\ props' = NoProps
       ELSE /\ props' = [props EXCEPT !.knob = props.knob + 1]
            /\ UNCHANGED <<pc, i>>
    /\ UNCHANGED <<cfg, host, lists, k, M, flag, p, aliased, tried, blob, peer>>

\* The check that ends Minimize.
Final ==
    /\ pc = "final"
    /\ pc' = IF k # -1 /\ (k < 0 \/ k >= Len(p0) \/ Name(CallAt(P0, K0)) # Name(CallAt(p0, k)))
             THEN BadIndexAfter ELSE "done"
    /\ UNCHANGED <<cfg, host, orc, ctxv, lists, p0, k, M, flag, i, peer>>

(***************************************************************************)
(* A second session on the same Target.  The tool starts one goroutine per *)
(* process, each of which calls Minimize on its own program with the same  *)
(* Target, so the pairwise stages of two sessions read and write one       *)
(* InfluenceMatrix without synchronisation.  The peer is the pairwise      *)
(* stage of such a session; its read of an entry and its write are         *)
(* separate steps, so the main session can write in between.               *)
(***************************************************************************)
PeerPrograms == {Build(shape) : shape \in SeqsOver(LightIds, 2)}

\* The peer's loop head and its proposal, as Pairwise.  Of the telemetry
\* only the cases that Diverges tells apart are drawn.
PeerPairwise ==
    /\ peer.pc = "pair"
    /\ IF peer.i < 0
       THEN peer' = [peer EXCEPT !.pc = "done"]
       ELSE IF peer.i = peer.k
       THEN peer' = [peer EXCEPT !.i = peer.i - 1]
       ELSE \E ans, st \in BOOLEAN, h1 \in {0, 1}, h2 \in {0, MaxHash} :
              /\ (~ans /\ st /\ h1 # 0 /\ h2 # 0) \/ (h1 = 0 /\ h2 = 0)
              /\ ~ans \/ ~st
              /\ peer' = [peer EXCEPT !.pc = "learn",
                                      !.q = RemoveCall(Clone(peer.p0), peer.i),
                                      !.idx = PairIndex(peer.i, peer.k),
                                      !.ans = ans, !.status = st, !.hp = h1, !.hp0 = h2]
    /\ UNCHANGED <<cfg, host, orc, ctxv, lists, p0, k, M, flag, pc, i>>

\* The peer's tests up to the read of the entry.
PeerRead ==
    /\ peer.pc = "learn"
    /\ peer' = [peer EXCEPT
                   !.pc = "write",
                   !.pending = Learns(peer.p0, peer.q, peer.i, M, peer.ans, TRUE,
                                      peer.status, peer.hp, peer.hp0),
                   !.s = IF peer.i + 1 < Len(peer.p0) THEN Id(peer.p0, peer.i) ELSE 0,
                   !.d = IF peer.i + 1 < Len(peer.p0) THEN Id(peer.p0, peer.i + 1) ELSE 0]
    /\ UNCHANGED <<cfg, host, orc, ctxv, lists, p0, k, M, flag, pc, i>>

\* The peer's write, if the entry it read was 0, and the rest of its
\* iteration.
PeerWrite ==
    /\ peer.pc = "write"
    /\ M' = IF peer.pending THEN Store(M, peer.s, peer.d) ELSE M
    /\ peer' = [peer EXCEPT !.pc = "pair",
                            !.p0 = Commit(peer.ans, peer.q, peer.p0),
                            !.k = CommitIndex(peer.ans, peer.idx, peer.k),
                            !.i = peer.i - 1,
                            !.q = <<>>, !.idx = -1, !.ans = FALSE,
                            !.status = FALSE, !.hp = 0, !.hp0 = 0,
                            !.pending = FALSE, !.s = 0, !.d = 0,
                            !.wrote = (peer.wrote \/ peer.pending)]
    /\ UNCHANGED <<cfg, host, orc, ctxv, lists, p0, k, flag, pc, i>>

Next ==
    \/ Start
    \/ RemovePost
    \/ RemoveFront
    \/ RemoveUnrelated
    \/ Pairwise
    \/ PairwiseAnswer
    \/ ResetCallProps
    \/ ArgLoop
    \/ Walk
    \/ BlobIter
    \/ BlobEnd
    \/ MinimizeCallProps
    \/ Final

Spec == Init /\ [][Next]_vars

\* Two sessions of the engine that learns, on programs of the light calls.
ConcShapes == {<<1, 2>>, <<2, 2>>, <<1, 2, 2>>, <<5>>}

InitConc ==
    /\ variant = "collect"
    /\ enable = TRUE
    /\ crash = FALSE
    /\ P0 \in {Build(shape) : shape \in ConcShapes}
    /\ K0 \in {-1, Len(P0) - 1}
    /\ M0 \in {StaticMatrix, ZeroMatrix}
    /\ Entry
    /\ \E q \in PeerPrograms :
          peer = [NoPeer EXCEPT !.pc = "pair", !.p0 = q, !.k = -1, !.i = Len(q) - 1]
    /\ pred = "any"
    /\ thr = 0
    /\ host = NoHost

NextConc ==
    \/ Start
    \/ RemovePost
    \/ RemoveFront
    \/ Pairwise
    \/ PairwiseAnswer
    \/ ResetCallProps
    \/ ArgLoop
    \/ Walk
    \/ BlobIter
    \/ BlobEnd
    \/ MinimizeCallProps
    \/ Final
    \/ PeerPairwise
    \/ PeerRead
    \/ PeerWrite

SpecConc == InitConc /\ [][NextConc]_vars

(***************************************************************************)
(* Minimize called a second time, on the program and the index it          *)
(* returned, with the oracle that accepts every proposal.                  *)
(***************************************************************************)
Again ==
    /\ pc = "done"
    /\ host.run = 1
    /\ host' = [host EXCEPT !.run = 2]
    /\ P0' = p0
    /\ K0' = k
    /\ M0' = M
    /\ flag' = FALSE
    /\ pc' = "start"
    /\ i' = 0
    /\ front' = {}
    /\ post' = {}
    /\ p' = p0
    /\ aliased' = FALSE
    /\ tried' = {}
    /\ blob' = NoBlob
    /\ props' = NoProps
    /\ last' = NoCall
    /\ okProg' = p0
    /\ accepted' = FALSE
    /\ ncalls' = 0
    /\ seen' = {}
    /\ execs' = <<>>
    /\ UNCHANGED <<variant, crash, enable, pred, thr, p0, k, M, peer>>

InitTwice ==
    /\ Params
    /\ Entry
    /\ peer = NoPeer
    /\ pred = "accept"
    /\ thr = 0
    /\ host = NoHost

\* Under this oracle the removal of a pointer's pointee, which PtrType.minimize
\* proposes before it descends, is accepted, so BufferType.minimize is never
\* reached on a blob and the halving loop has no step here.
NextTwice ==
    \/ Start
    \/ RemovePost
    \/ RemoveFront
    \/ RemoveUnrelated
    \/ Pairwise
    \/ PairwiseAnswer
    \/ ResetCallProps
    \/ ArgLoop
    \/ Walk
    \/ MinimizeCallProps
    \/ Final
    \/ Again

SpecTwice == InitTwice /\ [][NextTwice]_vars

(***************************************************************************)
(* Sessions on one call with a blob, with the oracle that accepts exactly   *)
(* the programs whose buffer keeps at least thr bytes.                      *)
(***************************************************************************)
\* A blob of 100 bytes with RangeBegin 10, and the length from which on the
\* oracle accepts.
Example == [len |-> 100, lo |-> 10, thr |-> 40]

\* write_b with a buffer of L bytes and RangeBegin m.
BlobProgram(L, m) ==
    [c \in 1..1 |->
        [MkCall(<<5>>, 1) EXCEPT
            !.args = << PtrArg("buf", << BlobArg("", "in", "blobrange", m, [x \in 1..L |-> Ch]) >>),
                        LenArg("n", L) >>]]

BlobCases ==
    {[len |-> L, lo |-> m] : L \in 1..MaxLen, m \in 0..MaxLen}
        \cup {[len |-> Example.len, lo |-> Example.lo]}

InitBlob ==
    /\ variant \in {"collect", "syzmini"}
    /\ enable = FALSE
    /\ M0 = StaticMatrix
    /\ crash = FALSE
    /\ \E c \in BlobCases :
          /\ c.lo <= c.len
          /\ P0 = BlobProgram(c.len, c.lo)
          /\ thr \in c.lo..c.len
    /\ K0 \in {-1, 0}
    /\ Entry
    /\ peer = NoPeer
    /\ pred = "atleast"
    /\ host = NoHost

SpecBlob == InitBlob /\ [][Next]_vars

(***************************************************************************)
(* Sessions with the oracle of the end-to-end scenarios: accept iff the     *)
(* signal of the target call is unchanged.                                  *)
(***************************************************************************)
InitSignal ==
    /\ Params
    /\ Entry
    /\ peer = NoPeer
    /\ pred = "signal"
    /\ thr = 0
    /\ host = NoHost

SpecSignal == InitSignal /\ [][Next]_vars

(***************************************************************************)
(* The tool: one worker of Context.run takes the programs of the corpus in  *)
(* turn, executes each once, and minimizes those that produced results     *)
(* with the closure that re-executes a proposal up to three times.  The    *)
(* resume file is kept as the set of indices written to it.                *)
(***************************************************************************)
\* ctx.progs and call_index_ary: use_r after open_r, and write_b.
HostProgs == << Build(<<1, 2>>), Build(<<5>>) >>
HostCallIndex == <<1, 0>>

\* flag "repeat", by default
HostRepeat == 1

\* "if try > 10"
MaxTry == 10

\* What env.Exec returns to execute_consume: an error other than
\* ErrExecBufferTooSmall, or that error, or none; and the info.
ExecErrs == {"failed", "toosmall", "none"}
ExecInfos == {NoInfo} \cup {[nil |-> FALSE, calls |-> 1, hash |-> h] : h \in 0..MaxHash}

\* The head of the loop of Context.run: the shutdown channel, the next
\* index, the indices of the resume file and the end of the corpus.
RunLoop ==
    /\ host.pc = "loop"
    /\ IF host.shutdown
       THEN host' = [host EXCEPT !.pc = "returned"]
       ELSE LET idx == host.pos
            IN  host' = [host EXCEPT
                    !.pos = idx + 1,
                    !.idx = idx,
                    !.try = 0,
                    !.nexec = 0,
                    !.pc = IF idx \in host.index_map THEN "loop"
                           ELSE IF HostRepeat > 0 /\ idx >= Len(HostProgs) * HostRepeat
                           THEN "returned"
                           ELSE "exec"]
    /\ UNCHANGED <<cfg, orc, ctxv, lists, p0, k, M, flag, pc, i, peer>>

\* One iteration of "for try := 0; ; try++" of execute_consume.
ExecuteConsume ==
    /\ host.pc = "exec"
    /\ \E err \in ExecErrs, info \in ExecInfos :
          /\ err = "none" \/ info = NoInfo
          /\ host' = IF err = "failed"
                     THEN IF host.try > MaxTry
                          THEN [host EXCEPT !.pc = "fatal", !.nexec = host.nexec + 1,
                                            !.err = err, !.info = NoInfo]
                          ELSE [host EXCEPT !.try = host.try + 1, !.nexec = host.nexec + 1,
                                            !.err = err, !.info = NoInfo]
                     ELSE [host EXCEPT !.pc = IF info.nil THEN "loop" ELSE "mark",
                                       !.nexec = host.nexec + 1,
                                       !.err = err, !.info = info]
    /\ UNCHANGED <<cfg, orc, ctxv, lists, p0, k, M, flag, pc, i, peer>>

\* "if info_old != nil": the hash of the target call's signal, the index
\* into index_map and into the resume file, and the entry of Minimize.
CallMinimize ==
    /\ host.pc = "mark"
    /\ LET idx == host.idx
           entry == HostProgs[(idx % Len(HostProgs)) + 1]
       IN  /\ host' = [host EXCEPT !.pc = "minimize",
                                   !.hash0 = host.info.hash,
                                   !.try = 0, !.nexec = 0, !.err = "", !.info = NoInfo,
                                   !.index_map = host.index_map \cup {idx},
                                   !.file = host.file \cup {idx},
                                   !.mark = 0]
           /\ P0' = entry
           /\ K0' = HostCallIndex[idx + 1]
           /\ p0' = entry
           /\ k' = HostCallIndex[idx + 1]
           /\ p' = entry
           /\ okProg' = entry
    /\ M0' = M
    /\ flag' = FALSE
    /\ pc' = "start"
    /\ i' = 0
    /\ front' = {}
    /\ post' = {}
    /\ aliased' = FALSE
    /\ tried' = {}
    /\ blob' = NoBlob
    /\ props' = NoProps
    /\ last' = NoCall
    /\ accepted' = FALSE
    /\ ncalls' = 0
    /\ seen' = {}
    /\ execs' = <<>>
    /\ UNCHANGED <<variant, crash, enable, pred, thr, M, peer>>

\* After Minimize returned: the counts, with the index, go to the file.
SaveCounts ==
    /\ host.pc = "minimize"
    /\ pc = "done"
    /\ host' = [host EXCEPT !.pc = "loop",
                            !.file = host.file \cup {host.idx},
                            !.finished = host.finished \cup {host.idx}]
    /\ pc' = "idle"
    /\ UNCHANGED <<cfg, orc, ctxv, lists, p0, k, M, flag, i, peer>>

\* osutil.HandleInterrupts closes ctx.shutdown; mark is the number of oracle
\* calls the running session had made by then.
Interrupt ==
    /\ host.pc \in {"loop", "exec", "mark", "minimize"}
    /\ ~host.shutdown
    /\ host' = [host EXCEPT !.shutdown = TRUE,
                            !.mark = IF host.pc = "minimize" THEN ncalls ELSE 0]
    /\ UNCHANGED <<cfg, orc, ctxv, lists, p0, k, M, flag, pc, i, peer>>

\* The tool after main: the resume file lists no index, or the first one.
InitHost ==
    /\ variant = "syzmini"
    /\ crash = FALSE
    /\ enable = FALSE
    /\ P0 = <<>>
    /\ K0 = -1
    /\ M0 = StaticMatrix
    /\ p0 = <<>>
    /\ k = -1
    /\ M = StaticMatrix
    /\ flag = FALSE
    /\ pc = "idle"
    /\ i = 0
    /\ front = {}
    /\ post = {}
    /\ p = <<>>
    /\ aliased = FALSE
    /\ tried = {}
    /\ blob = NoBlob
    /\ props = NoProps
    /\ last = NoCall
    /\ okProg = <<>>
    /\ accepted = FALSE
    /\ ncalls = 0
    /\ seen = {}
    /\ execs = <<>>
    /\ peer = NoPeer
    /\ pred = "tool"
    /\ thr = 0
    /\ \E done \in {{}, {0}} :
          host = [NoHost EXCEPT !.pc = "loop", !.file = done, !.index_map = done,
                                !.finished = done]

NextHost ==
    \/ RunLoop
    \/ ExecuteConsume
    \/ CallMinimize
    \/ Start
    \/ RemovePost
    \/ RemoveUnrelated
    \/ Pairwise
    \/ PairwiseAnswer
    \/ ArgLoop
    \/ Walk
    \/ BlobIter
    \/ BlobEnd
    \/ Final
    \/ SaveCounts
    \/ Interrupt

SpecHost == InitHost /\ [][NextHost]_vars

(***************************************************************************)
(* Sessions of the engine of minimization.go on a Target whose matrix is    *)
(* any relation over the light syscalls, as learning in earlier sessions   *)
(* and the dithering of the tool leave it.                                 *)
(***************************************************************************)
MatricesOver(S) ==
    {[s \in SysIds |-> [d \in SysIds |-> IF s \in S /\ d \in S THEN f[<<s, d>>] ELSE 0]] :
        f \in [S \X S -> {0, 1}]}

FrontShapes == LightShapes \cup {<<5>>, <<1, 5, 2>>}

InitFront ==
    /\ variant = "collect"
    /\ enable = FALSE
    /\ crash = FALSE
    /\ P0 \in {Build(shape) : shape \in FrontShapes}
    /\ K0 \in -1..(Len(P0) - 1)
    /\ M0 \in MatricesOver(LightIds)
    /\ Entry
    /\ peer = NoPeer
    /\ pred = "any"
    /\ thr = 0
    /\ host = NoHost

NextCollect ==
    \/ Start
    \/ RemovePost
    \/ RemoveFront
    \/ Pairwise
    \/ PairwiseAnswer
    \/ ResetCallProps
    \/ ArgLoop
    \/ Walk
    \/ BlobIter
    \/ BlobEnd
    \/ MinimizeCallProps
    \/ Final

SpecFront == InitFront /\ [][NextCollect]_vars

(***************************************************************************)
(* Sessions of the engine of part_000 on programs in which calls are       *)
(* related to the target through other calls, by resources and by          *)
(* filenames, next to three or more calls that are not.                    *)
(***************************************************************************)
RelatedShapes ==
    {<<4, 4, 2, 3, 3, 3>>, <<1, 7, 4, 3, 3, 3>>, <<5, 3, 3, 3>>,
     <<3, 3, 3, 2>>, <<1, 3, 2, 3, 3>>, <<1, 2, 3, 3>>}

InitRelated ==
    /\ variant = "syzmini"
    /\ enable = FALSE
    /\ crash = FALSE
    /\ P0 \in {Build(shape) : shape \in RelatedShapes}
    /\ K0 \in -1..(Len(P0) - 1)
    /\ M0 = StaticMatrix
    /\ Entry
    /\ peer = NoPeer
    /\ pred = "any"
    /\ thr = 0
    /\ host = NoHost

NextSyzmini ==
    \/ Start
    \/ RemovePost
    \/ RemoveUnrelated
    \/ Pairwise
    \/ PairwiseAnswer
    \/ ArgLoop
    \/ Walk
    \/ BlobIter
    \/ BlobEnd
    \/ Final

SpecRelated == InitRelated /\ [][NextSyzmini]_vars

(***************************************************************************)
(* The static analysis of the Target (src/syzmini/prog/target.go).  The     *)
(* schema of a syscall is the sequence of its resource types with their    *)
(* directions, in the order ForeachType visits them.                       *)
(***************************************************************************)
Dirs == {"in", "out", "inout"}
Resources == {"R", "S"}
Occurrences == [res : Resources, dir : Dirs]

\* The longest schema that is drawn.
MaxOcc == 2

SchemasUpTo(n) == UNION {[1..m -> Occurrences] : m \in 0..n}

\* The targets: two syscalls with any schema and one that returns R.
Targets ==
    {<<a, b, << [res |-> "R", dir |-> "out"] >> >> : a, b \in SchemasUpTo(MaxOcc)}

RECURSIVE TypeUsageFrom(_, _, _, _)
\* calcTypeUsage from occurrence o of syscall c on: type_uses[name][c.ID] is
\* assigned at every occurrence ("" = no entry).
TypeUsageFrom(schemas, c, o, type_uses) ==
    IF c > Len(schemas) THEN type_uses
    ELSE IF o > Len(schemas[c]) THEN TypeUsageFrom(schemas, c + 1, 1, type_uses)
    ELSE LET t == schemas[c][o]
         IN  TypeUsageFrom(schemas, c, o + 1,
                           [type_uses EXCEPT ![t.res] = [type_uses[t.res] EXCEPT ![c] = t.dir]])

calcTypeUsage(schemas) ==
    TypeUsageFrom(schemas, 1, 1, [r \in Resources |-> [c \in DOMAIN schemas |-> ""]])

\* The matrix AnalyzeStaticInfluence fills from type_uses.
InfluenceOf(schemas, type_uses) ==
    [src \in DOMAIN schemas |-> [dest \in DOMAIN schemas |->
        IF \E r \in Resources :
              /\ type_uses[r][src] = "out"
              /\ type_uses[r][dest] \in {"in", "inout"}
              /\ src # dest
        THEN 1 ELSE 0]]

\* The engine outside a session.
Idle ==
    /\ variant = "syzmini"
    /\ crash = FALSE
    /\ enable = FALSE
    /\ P0 = <<>>
    /\ K0 = -1
    /\ M0 = StaticMatrix
    /\ p0 = <<>>
    /\ k = -1
    /\ M = StaticMatrix
    /\ flag = FALSE
    /\ pc = "idle"
    /\ i = 0
    /\ front = {}
    /\ post = {}
    /\ p = <<>>
    /\ aliased = FALSE
    /\ tried = {}
    /\ blob = NoBlob
    /\ props = NoProps
    /\ last = NoCall
    /\ okProg = <<>>
    /\ accepted = FALSE
    /\ ncalls = 0
    /\ seen = {}
    /\ execs = <<>>
    /\ peer = NoPeer
    /\ pred = "tool"
    /\ thr = 0

\* Target.AnalyzeStaticInfluence
AnalyzeStaticInfluence ==
    /\ host.pc = "static"
    /\ host' = [host EXCEPT !.pc = "analyzed",
                            !.matrix = InfluenceOf(host.schemas, calcTypeUsage(host.schemas))]
    /\ UNCHANGED <<cfg, orc, ctxv, lists, p0, k, M, flag, pc, i, peer>>

InitStatic ==
    /\ Idle
    /\ \E t \in Targets : host = [NoHost EXCEPT !.pc = "static", !.schemas = t]

SpecStatic == InitStatic /\ [][AnalyzeStaticInfluence]_vars

(***************************************************************************)
(* main of the tool after AnalyzeStaticInfluence: the dithering of the      *)
(* matrix and the loading of the corpus.  The matrix is kept as the number *)
(* of its ones; which of them the permutation picks is left open.          *)
(***************************************************************************)
\* Values of the flag "influenceproportion" and numbers of ones.
Proportions == {0, 1, 25, 50, 75, 99, 100}
OnesCounts == {0, 1, 50, 99, 100, 101, 150, 199, 200, 250, 1000}

\* Fault: the fraction is taken of the number of ones, rounded down.
NumToZero_Fraction(n, prop) == (n * (100 - prop)) \div 100

\* "numToZero := len(onesCoords) / 100 * (100 - *flagInfluenceProportion)"
NumToZero(n, prop) == (n \div 100) * (100 - prop)

\* main from the test of the flag to the print of the count.
Dither ==
    /\ host.pc = "analyzed"
    /\ host' = IF host.proportion # 0 /\ host.proportion # 100
               THEN IF NumToZero(host.ones, host.proportion) = 0
                    THEN [host EXCEPT !.pc = "exit"]
                    ELSE [host EXCEPT !.pc = "load",
                                      !.zeroed = NumToZero(host.ones, host.proportion)]
               ELSE [host EXCEPT !.pc = "load"]
    /\ UNCHANGED <<cfg, orc, ctxv, lists, p0, k, M, flag, pc, i, peer>>

\* loadPrograms_comsume and "if len(progs) == 0 { return }"; the workers
\* start at the head of the loop of Context.run.
LoadPrograms ==
    /\ host.pc = "load"
    /\ \E n \in {0, Len(HostProgs)} :
          host' = [host EXCEPT !.pc = IF n = 0 THEN "exit" ELSE "loop"]
    /\ UNCHANGED <<cfg, orc, ctxv, lists, p0, k, M, flag, pc, i, peer>>

InitMain ==
    /\ Idle
    /\ \E prop \in Proportions, n \in OnesCounts :
          host = [NoHost EXCEPT !.pc = "analyzed", !.proportion = prop, !.ones = n]

NextMain ==
    \/ Dither
    \/ LoadPrograms

SpecMain == InitMain /\ [][NextMain]_vars

(***************************************************************************)
(* Sessions on programs that hold nothing to shrink, next to the programs   *)
(* with the richer argument trees.                                         *)
(***************************************************************************)
\* One call of syscall s with the given arguments and default properties.
PlainCall(s, args) ==
    [c \in 1..1 |-> [MkCall(<<s>>, 1) EXCEPT !.args = args, !.props = DefaultProps]]

\* use_r on a resource without producer.
MinimalUse == PlainCall(2, << ResArg("fd", "in", 0, 0, 3) >>)

\* pipe_r with a pointer without pointee and a normalized filename.
MinimalPipe ==
    PlainCall(4, << PtrArg("fds", <<>>), FilenameArg("file", "in", <<Ch, NUL>>, FALSE, TRUE) >>)

\* arr_a with its arrays at their low bounds and the integers at their
\* defaults.
MinimalArr ==
    PlainCall(6, << ArrayArg("a", "rand", 0, <<>>),
                    ArrayArg("b", "range", 2, << IntArg("", 0, 0, FALSE), IntArg("", 0, 0, FALSE) >>) >>)

\* st_s with every field at its default.
MinimalStruct ==
    PlainCall(7, << StructArg("s", << IntArg("x", 0, 0, TRUE),
                                      ProcArg("pid", 0, TRUE),
                                      ProcArg("pid2", 1, FALSE),
                                      UnionArg("u", FlagsArg("f", 0, 0)),
                                      ResArg("r", "in", 0, 0, 3),
                                      FilenameArg("path", "in", <<Ch, NUL>>, FALSE, TRUE),
                                      FilenameArg("fixed", "in", <<Ch, NUL, NUL>>, FALSE, FALSE) >>) >>)

\* write_b with a blob at its minimum length: only the pointer is left to
\* try.
MinimalBlob ==
    PlainCall(5, << PtrArg("buf", << BlobArg("", "in", "blobrange", 2, <<Ch, Ch>>) >>),
                    LenArg("n", 2) >>)

MinimalPrograms == {MinimalUse, MinimalPipe, MinimalArr, MinimalStruct}

InitNoop ==
    /\ variant \in {"collect", "syzmini"}
    /\ enable = FALSE
    /\ M0 = StaticMatrix
    /\ P0 \in RichPrograms \cup MinimalPrograms \cup {MinimalBlob}
    /\ K0 \in -1..(Len(P0) - 1)
    /\ crash \in (IF K0 = -1 THEN BOOLEAN ELSE {FALSE})
    /\ Entry
    /\ peer = NoPeer
    /\ pred = "any"
    /\ thr = 0
    /\ host = NoHost

SpecNoop == InitNoop /\ [][Next]_vars

(***************************************************************************)
(* Sessions on one call with one filename argument: every byte string of   *)
(* up to MaxName bytes over NUL, the pad byte and another byte, with and   *)
(* without terminator, of variable and of fixed length.                    *)
(***************************************************************************)
MaxName == 4

FileNames == UNION {[1..m -> {NUL, PadByte, Ch}] : m \in 0..MaxName}

FileProgram(d, noz, varlen) ==
    PlainCall(4, << FilenameArg("file", "in", d, noz, varlen) >>)

InitFile ==
    /\ variant \in {"collect", "syzmini"}
    /\ enable = FALSE
    /\ M0 = StaticMatrix
    /\ \E d \in FileNames, noz, varlen \in BOOLEAN : P0 = FileProgram(d, noz, varlen)
    /\ K0 \in {-1, 0}
    /\ crash = FALSE
    /\ Entry
    /\ peer = NoPeer
    /\ pred = "any"
    /\ thr = 0
    /\ host = NoHost

\* These programs have no blob: the halving loop is never entered.
NextFile ==
    \/ Start
    \/ RemovePost
    \/ RemoveFront
    \/ RemoveUnrelated
    \/ Pairwise
    \/ PairwiseAnswer
    \/ ResetCallProps
    \/ ArgLoop
    \/ Walk
    \/ MinimizeCallProps
    \/ Final

SpecFile == InitFile /\ [][NextFile]_vars

(***************************************************************************)
(* Sessions without a target call (callIndex0 = -1), in crash mode and     *)
(* outside it, under the free oracle and under the one that accepts every  *)
(* proposal.                                                               *)
(***************************************************************************)
InitNoTarget ==
    /\ Params
    /\ K0 = -1
    /\ Entry
    /\ peer = NoPeer
    /\ pred \in {"any", "accept"}
    /\ thr = 0
    /\ host = NoHost

SpecNoTarget == InitNoTarget /\ [][Next]_vars

(***************************************************************************)
(* Properties.                                                             *)
(***************************************************************************)

\* C1: when a target call was given (k0 >= 0 and inside P0), the target
\* index stays inside the baseline and the call it points at has the name of
\* the call that P0 had at k0, through every stage up to the return; the
\* check that ends Minimize never panics.
C1_TargetKept ==
    /\ pc # BadIndexAfter
    /\ K0 \in 0..(Len(P0) - 1) =>
          /\ k \in 0..(Len(p0) - 1)
          /\ Name(CallAt(p0, k)) = Name(CallAt(P0, K0))

\* Minimize returned after calls in front of the target were removed, so
\* the target index moved.
C1_Witness == pc = "done" /\ K0 > 0 /\ k >= 0 /\ k < K0 /\ Len(p0) < Len(P0)

\* C2: a step that changes the baseline installs the program of the latest
\* oracle call that answered true, exactly as it was proposed; a step in
\* which the oracle answers false, and the step that handles a false answer,
\* leave the baseline alone.
C2_CommitOnlyAccepted ==
    [][/\ p0' # p0 => (accepted' /\ p0' = okProg')
       /\ (ncalls' # ncalls /\ ~last'.ans) => p0' = p0
       /\ (pc = "learn" /\ ~last.ans) => p0' = p0]_vars

\* A proposal was accepted and committed, and a later one was rejected.
C2_Witness ==
    /\ accepted /\ p0 # P0 /\ p0 = okProg
    /\ last.kind # "none" /\ ~last.ans /\ last.prog # p0
    /\ pc = "done"

\* C3: as long as the oracle has rejected every proposal, the baseline is
\* P0 itself and the target index is k0; so it is at the return.
C3_RejectAllReturnsInput == ~accepted => (p0 = P0 /\ k = K0)

\* Minimize returned after the oracle rejected several proposals and
\* accepted none.
C3_Witness == pc = "done" /\ ~accepted /\ ncalls >= 3 /\ p0 = P0 /\ k = K0

RECURSIVE Skeleton(_)
\* An argument tree with its resource references taken out: what is left of
\* it when producers it refers to leave the program.
Skeleton(a) ==
    IF a.t = "resource" THEN [a EXCEPT !.ref = 0, !.val = a.def]
    ELSE [a EXCEPT !.inner = [x \in DOMAIN a.inner |-> Skeleton(a.inner[x])]]

SameButRefs(c1, c2) ==
    /\ c1.meta = c2.meta /\ c1.uid = c2.uid /\ c1.props = c2.props
    /\ Len(c1.args) = Len(c2.args)
    /\ \A x \in DOMAIN c1.args : Skeleton(c1.args[x]) = Skeleton(c2.args[x])

\* C4 as stated: every no_minimize call of P0 is in the baseline, with the
\* arguments and the properties it had in P0.
C4_NoMinimizeUntouched ==
    \A c \in DOMAIN P0 : NoMinimize(P0[c]) => \E d \in DOMAIN p0 : p0[d] = P0[c]

\* C4, amended: the argument-level traversal and minimizeCallProps never
\* work on a no_minimize call, and their proposals leave every no_minimize
\* call of the baseline in place with its properties and its arguments, up
\* to resource references that are cleared because their producer left the
\* program.
C4_NoMinimizeSkipped ==
    /\ [](pc \in {"walk", "blob", "blobend", "props"} => ~NoMinimize(CallAt(p0, i)))
    /\ [][(ncalls' # ncalls /\ last'.kind \in ArgKinds \cup PropKinds) =>
             /\ Len(last'.prog) = Len(p0)
             /\ \A d \in DOMAIN p0 :
                   NoMinimize(p0[d]) => SameButRefs(last'.prog[d], p0[d])]_vars

\* Minimize returned with a no_minimize call in the baseline exactly as P0
\* had it, after an argument-level step on another call was committed.
C4_Witness ==
    /\ pc = "done"
    /\ last.kind \in ArgKinds /\ last.ans /\ p0 = last.prog
    /\ \E d \in DOMAIN p0 : NoMinimize(p0[d]) /\ p0[d] = P0[p0[d].uid]

\* C5: the calls of the baseline are calls of P0 in the order of P0, each
\* with the syscall it had in P0, and there are no more of them than in P0.
C5_Subsequence ==
    /\ Len(p0) <= Len(P0)
    /\ \A c \in DOMAIN p0 : p0[c].uid \in DOMAIN P0 /\ p0[c].meta = P0[p0[c].uid].meta
    /\ \A c, d \in DOMAIN p0 : c < d => p0[c].uid < p0[d].uid

\* Minimize returned at least two calls, with a call of P0 missing in front
\* of or between them.
C5_Witness ==
    /\ pc = "done" /\ Len(p0) >= 2 /\ Len(p0) < Len(P0)
    /\ \E c \in DOMAIN p0 : p0[c].uid # c

RECURSIVE SumOver(_, _)
SumOver(seq, n) == IF n = 0 THEN 0 ELSE SumOver(seq, n - 1) + seq[n]

RECURSIVE ByteCount(_)
\* The bytes of the buffers of an argument tree.
ByteCount(a) ==
    Len(a.data) + SumOver([x \in DOMAIN a.inner |-> ByteCount(a.inner[x])], Len(a.inner))

Nodes(prog) ==
    SumOver([c \in DOMAIN prog |->
                SumOver([x \in DOMAIN prog[c].args |-> NodeCount(prog[c].args[x])],
                        Len(prog[c].args))], Len(prog))

Bytes(prog) ==
    SumOver([c \in DOMAIN prog |->
                SumOver([x \in DOMAIN prog[c].args |-> ByteCount(prog[c].args[x])],
                        Len(prog[c].args))], Len(prog))

Shrinks(old, new) ==
    Len(new) < Len(old) \/ Nodes(new) < Nodes(old) \/ Bytes(new) < Bytes(old)

\* C6 as stated: every step that changes the baseline strictly reduces the
\* number of calls, of argument-tree nodes or of buffer bytes.
C6_EveryCommitShrinks == [][p0' # p0 => Shrinks(p0, p0')]_vars

\* C6, amended: a committed removal of calls, removal of an array element
\* or of all elements, replacement of a pointer by NULL or trim of a blob
\* strictly reduces the number of calls, of argument-tree nodes or of buffer
\* bytes.
C6_RemovalsShrink ==
    [][(p0' # p0 /\ last'.kind \in CallKinds \cup {"ptr", "elem", "all", "blob"})
          => Shrinks(p0, p0')]_vars

\* A pointer was replaced by NULL and the proposal committed: the baseline
\* has fewer nodes than P0.
C6_Witness ==
    /\ last.kind = "ptr" /\ last.ans /\ p0 = last.prog
    /\ Nodes(p0) < Nodes(P0)

\* C7: with two sessions on one matrix, in every interleaving of their
\* steps a step leaves every entry that is 1 at 1, and the entries are 0 or 1.
C7_MatrixMonotone ==
    /\ [](\A s, d \in SysIds : M[s][d] \in {0, 1})
    /\ [][\A s, d \in SysIds : M[s][d] = 1 => M'[s][d] = 1]_vars

\* The peer read an entry as 0 and is about to write it; the main session
\* has set the same entry in between.
C7_Witness ==
    /\ peer.pc = "write" /\ peer.pending
    /\ M[peer.s][peer.d] = 1 /\ M0[peer.s][peer.d] = 0
    /\ flag

\* The program [A, B] of the example: A = open_r, B = use_r.
ExampleAB == Build(<<1, 2>>)

\* C8: the flag is true exactly when the matrix differs from the matrix the
\* session started with, at the return and at every state before it; and in
\* the example (P0 = [A, B], k0 = 1, M[A][B] = 0, learning enabled) the step
\* that handles a rejected removal of A whose telemetry shows differing
\* nonzero hashes leaves P0 and k = 1, sets M[A][B] and raises the flag.
C8_FlagIffLearned ==
    /\ [](flag <=> M # M0)
    /\ [][(/\ P0 = ExampleAB /\ K0 = 1 /\ M0 = ZeroMatrix
           /\ variant = "collect" /\ enable
           /\ pc = "learn" /\ i = 0 /\ p0 = P0
           /\ ~last.ans /\ last.status
           /\ last.hp # last.hp0 /\ last.hp # 0 /\ last.hp0 # 0)
          => (p0' = P0 /\ k' = 1 /\ M'[1][2] = 1 /\ flag')]_vars

\* The example ran to the return: nothing was removed, the entry of (A, B)
\* was learned and the flag is true.
C8_Witness ==
    /\ P0 = ExampleAB /\ K0 = 1 /\ M0 = ZeroMatrix
    /\ pc = "done" /\ p0 = P0 /\ k = 1
    /\ M[1][2] = 1 /\ flag

\* The length of the blob the halving loop works on.
BlobLen == IF pc = "blob" THEN Len(GetIn(CallAt(p, i).args, blob.loc).data) ELSE 0

RECURSIVE AllKeys(_, _, _)
\* Every key that a traversal of the argument can mark: the path of each
\* node, ">" under a pointer, "all" and the element paths under an array.
AllKeys(a, field, path) ==
    LET path1 == Append(path, field)
    IN  {path1} \cup
        CASE a.t \in {"struct", "union"} ->
                UNION {AllKeys(a.inner[x], a.inner[x].name, path1) : x \in DOMAIN a.inner}
          [] a.t = "ptr" ->
                {Append(path1, ">")} \cup
                UNION {AllKeys(a.inner[x], "", path1) : x \in DOMAIN a.inner}
          [] a.t = "array" ->
                {Append(path1, "all")} \cup
                UNION {{Append(path1, ToString(x - 1))} \cup
                       AllKeys(a.inner[x], "", Append(path1, ToString(x - 1))) :
                       x \in DOMAIN a.inner}
          [] OTHER -> {}

\* The keys of the call under traversal that are not marked yet.
Unmarked ==
    LET args == CallAt(p, i).args
    IN  Cardinality(UNION {AllKeys(args[x], args[x].name, <<>>) : x \in DOMAIN args} \ tried)

\* The calls the loop over the calls has not finished.
CallsLeft == IF i >= Len(p0) THEN 0 ELSE Len(p0) - i

\* What is left of a session, most significant first: the stage, the
\* iterations of the stage's loop, the part of the iteration, the unmarked
\* keys of the traversal, and the position, blob length and step of the
\* blob loop.
Rank ==
    CASE pc = "start" -> <<7, 0, 0, 0, 0, 0, 0>>
      [] pc = "post" -> <<6, 0, 0, 0, 0, 0, 0>>
      [] pc \in {"front", "unrelated"} -> <<5, 0, 0, 0, 0, 0, 0>>
      [] pc = "pair" -> <<4, i + 2, 1, 0, 0, 0, 0>>
      [] pc = "learn" -> <<4, i + 2, 0, 0, 0, 0, 0>>
      [] pc = "reset" -> <<3, 0, 0, 0, 0, 0, 0>>
      [] pc = "args" -> <<2, CallsLeft, 3, 0, 0, 0, 0>>
      [] pc = "walk" -> <<2, CallsLeft, 2, Unmarked, 2, 0, 0>>
      [] pc = "blob" -> <<2, CallsLeft, 2, Unmarked, 1, BlobLen, blob.step>>
      [] pc = "blobend" -> <<2, CallsLeft, 2, Unmarked, 0, 0, 0>>
      [] pc = "props" -> <<2, CallsLeft, 1, 4 - props.knob, 0, 0, 0>>
      [] pc = "final" -> <<1, 0, 0, 0, 0, 0, 0>>
      [] OTHER -> <<0, 0, 0, 0, 0, 0, 0>>

LexLess(a, b) ==
    \E n \in DOMAIN a : a[n] < b[n] /\ \A m \in 1..(n - 1) : a[m] = b[m]

\* C9: whatever the oracle answers, Minimize ends after finitely many
\* steps: every step, and so every oracle call, strictly lowers a rank of
\* natural numbers in the lexicographic order, so that no run goes on for
\* ever.  In particular a step of the traversal that restarts it or goes on
\* with it marks a path that was not marked, the end of a blob loop marks the
\* blob's path, which was not marked, and an iteration of the blob loop that
\* stays in the loop makes the blob shorter or the step smaller.
C9_Terminates ==
    /\ [](\A n \in DOMAIN Rank : Rank[n] \in Nat)
    /\ [][LexLess(Rank', Rank)]_vars
    /\ [][(pc = "walk" /\ pc' = "walk") => (tried \subseteq tried' /\ tried' # tried)]_vars
    /\ [][(pc = "blobend" /\ pc' = "walk") => (blob.key \notin tried /\ blob.key \in tried')]_vars
    /\ [][(pc = "blob" /\ pc' = "blob") => (BlobLen' < BlobLen \/ blob'.step < blob.step)]_vars

\* Minimize returned after a traversal that marked at least three paths in
\* one call and ended with a blob loop.
C9_Witness ==
    /\ pc = "done"
    /\ Cardinality(tried) >= 3
    /\ last.kind = "blob"

\* C10 as stated: with the crash flag set no proposal removes an array
\* element or all elements of an array, resets an integer, flags or proc
\* value or clears a resource reference, and a rejected trim of a blob ends
\* the loop on that blob.
C10_CrashDisables ==
    /\ [](crash => last.kind \notin {"elem", "all", "int", "res"})
    /\ [][(crash /\ pc = "blob" /\ ncalls' # ncalls /\ ~last'.ans) => pc' = "blobend"]_vars

RECURSIVE RangeOk(_)
\* Every array of kind RangeLen in the tree has at least RangeBegin elements.
RangeOk(a) ==
    /\ (a.t = "array" /\ a.akind = "range") => Len(a.inner) >= a.lo
    /\ \A x \in DOMAIN a.inner : RangeOk(a.inner[x])

ProgRangeOk(prog) ==
    \A c \in DOMAIN prog : \A x \in DOMAIN prog[c].args : RangeOk(prog[c].args[x])

\* C11: in the baseline, in the working copy, in every proposal handed to the
\* oracle and in every program the oracle accepted, an array of kind
\* RangeLen has at least as many elements as its low bound: the removal of
\* one element is not applied to an array that is at the bound, and the
\* emptying of an array is applied only when the bound is 0.
C11_RangeLow ==
    /\ ProgRangeOk(p0)
    /\ ProgRangeOk(p)
    /\ ProgRangeOk(last.prog)
    /\ ProgRangeOk(okProg)

\* The engine with the whole-array step returned after it emptied the
\* array without bound and shrank the array with low bound 2 from more
\* elements to exactly 2.
C11_Witness ==
    /\ pc = "done" /\ variant = "syzmini" /\ P0 = Build(<<6>>) /\ Len(p0) = 1
    /\ Len(p0[1].args[1].inner) = 0
    /\ Len(P0[1].args[2].inner) > P0[1].args[2].lo
    /\ Len(p0[1].args[2].inner) = p0[1].args[2].lo

\* C12: when Minimize is run with the oracle that accepts every proposal
\* and run again, with that oracle, on the program and the index it
\* returned, the second run makes no proposal: no oracle call, and the
\* baseline and the index stay what the first run returned, up to the return
\* of the second run.
C12_SecondRunFixpoint ==
    host.run = 2 => (p0 = P0 /\ k = K0 /\ ncalls = 0 /\ pc \notin Panics)

\* The second run returned the program the first run had shrunk: one call,
\* its pointer NULL.
C12_Witness ==
    /\ host.run = 2 /\ pc = "done" /\ K0 = 0 /\ Len(p0) = 1
    /\ p0[1].meta = 5 /\ p0[1].args[1].inner = <<>>
    /\ p0 = P0 /\ k = K0

\* The low bound of the buffer of a blob session.
BufferLow == P0[1].args[1].inner[1].lo

\* C13: a session without the crash flag on a blob of L bytes with low
\* bound m, with the oracle that accepts exactly the programs whose buffer
\* keeps at least T bytes (m <= T <= L): the buffer of the baseline has L
\* bytes until the halving search commits, and T bytes from then on; the
\* program Minimize returns has a buffer of exactly T bytes, so nothing is
\* committed for the buffer when T = L.  With L = 100, m = 10 and T = 40 the
\* returned buffer has 40 bytes.
C13_BlobThreshold ==
    /\ BufferLow <= thr /\ thr <= BufferLen(P0)
    /\ BufferLen(p0) \in {BufferLen(P0), thr}
    /\ pc \in {"start", "post", "front", "unrelated", "pair", "learn", "reset"}
          => BufferLen(p0) = BufferLen(P0)
    /\ pc \in {"final", "done"} => BufferLen(p0) = thr
    /\ (/\ pc = "done" /\ BufferLen(P0) = Example.len
        /\ BufferLow = Example.lo /\ thr = Example.thr) => BufferLen(p0) = 40
    /\ pc \notin Panics

\* The session of the example returned: 100 bytes at the start, 40 at the
\* return, after trims that were rejected and trims that were accepted.
C13_Witness ==
    /\ pc = "done"
    /\ BufferLen(P0) = 100 /\ BufferLow = 10 /\ thr = 40
    /\ BufferLen(p0) = 40
    /\ last.kind \in {"blob"} \cup PropKinds /\ ncalls > 8

\* The scenario: P0 = [open_r, use_r(R0), noop, noop], k0 = 1, the static
\* matrix (open_r -> use_r = 1), the engine that uses the matrix.
SuffixScenario ==
    /\ P0 = Build(<<1, 2, 3, 3>>) /\ K0 = 1
    /\ M0 = StaticMatrix /\ variant = "collect"

\* C14 as stated: in the scenario Minimize returns [open_r, use_r(R0)] with
\* k = 1 after exactly two oracle calls.
C14_TwoCalls ==
    (SuffixScenario /\ pc = "done") =>
        (p0 = Build(<<1, 2>>) /\ k = 1 /\ ncalls = 2)

\* C14, amended: in the scenario the first oracle call is the suffix drop,
\* which is accepted; the prefix drop has nothing to remove; the second
\* call is the removal of open_r, which is rejected, and these two are the
\* calls of the call-level stage; the third call is the clearing of the
\* resource argument of use_r in the argument-level stage, which is
\* rejected; Minimize returns [open_r, use_r(R0)] with k = 1 after exactly
\* three oracle calls.
C14_ThreeCalls ==
    SuffixScenario =>
        /\ pc = "front" =>
              (ncalls = 1 /\ last.kind = "post" /\ last.ans /\ front = {})
        /\ pc = "reset" =>
              (ncalls = 2 /\ last.kind = "pair" /\ ~last.ans)
        /\ pc \in {"front", "pair", "learn", "reset", "args", "walk", "props", "final", "done"} =>
              (p0 = Build(<<1, 2>>) /\ k = 1)
        /\ pc \in {"final", "done"} =>
              (ncalls = 3 /\ last.kind = "res" /\ ~last.ans)

\* The scenario ran to the return.
C14_Witness ==
    /\ SuffixScenario /\ pc = "done"
    /\ p0 = Build(<<1, 2>>) /\ k = 1 /\ ncalls = 3
    /\ seen = {<<"calls", -1>>, <<"args", 1>>}

PhaseNo(ph) ==
    CASE ph = "calls" -> 1
      [] ph = "reset" -> 2
      [] ph = "args" -> 3
      [] ph = "props" -> 4

\* C15 as stated: the oracle calls of a session come in the order of the
\* phases: call removal, the bulk reset of the call properties, the
\* argument-level proposals, the minimization of the call properties; no
\* oracle call belongs to an earlier phase than a call made before it.
C15_PhaseOrder ==
    [][ncalls' # ncalls =>
          \A s \in seen : PhaseNo(s[1]) <= PhaseNo(Phase(last'.kind))]_vars

\* C15, amended: the call-removal proposals come first, then the bulk reset
\* of the call properties, then, for each surviving call in the order of the
\* program, the argument-level proposals of the call followed by the
\* minimization of the properties of that call.  So no call-removal proposal
\* and no bulk reset is made after an argument-level proposal, and where the
\* proposals are tagged, no proposal tagged 1 follows a proposal tagged 2.
C15_PhasesPerCall ==
    [][ncalls' # ncalls =>
          LET ph == Phase(last'.kind)
          IN  /\ ph \in {"calls", "reset"} => \A s \in seen : s[1] = "calls"
              /\ ph = "args" =>
                    \A s \in seen : \/ s[1] \in {"calls", "reset"}
                                   \/ s[2] < i
                                   \/ s = <<"args", i>>
              /\ ph = "props" =>
                    \A s \in seen : s[1] \in {"calls", "reset"} \/ s[2] <= i
              /\ \A s \in seen :
                    (IF s[1] = "calls" THEN 1 ELSE 2) <= StepKind(last'.kind)]_vars

\* A session made proposals of every phase, and argument-level proposals
\* on the second call after a proposal on the properties of the first.
C15_Witness ==
    /\ pc = "done"
    /\ {<<"calls", -1>>, <<"reset", -1>>, <<"args", 0>>, <<"props", 0>>, <<"args", 1>>}
          \subseteq seen

\* C16 as stated: a session that is aborted by a failed check hands its
\* caller a result, the program P0 it was called with, together with the
\* kind of the failure.
C16_AbortReturnsInput ==
    pc \in Panics =>
        (Outcome.returned /\ Outcome.prog = P0 /\ Outcome.panic = pc)

\* C17 as stated: once the shutdown channel is closed, a running session
\* makes at most one further call of the oracle.
C17_ShutdownObserved ==
    (host.shutdown /\ host.pc = "minimize") => ncalls <= host.mark + 1

\* C18 as stated: the resume file holds an index only when the minimization
\* of the program with that index has completed.
C18_FileAfterCompletion == host.file \subseteq host.finished

\* C19 as stated: a program is executed again at most 10 times after a
\* failure; the process ends fatally exactly when the execution after the
\* tenth retry failed; an execution that failed, with an executor error or
\* with a buffer that is too small, leads to a retry or to the fatal end;
\* and Minimize is entered only on an execution that did not fail.
C19_RetryBound ==
    /\ host.nexec <= MaxTry + 1
    /\ host.pc = "fatal" => host.nexec = MaxTry + 1
    /\ host.err \in {"failed", "toosmall"} => host.pc \in {"exec", "fatal"}
    /\ host.pc = "mark" => (host.err = "none" /\ ~host.info.nil)

\* An execution that produced call results and whose hash of the target
\* call's signal is the one recorded before the minimization.
Matches(info) == ~info.nil /\ info.calls > 0 /\ info.hash = host.hash0

\* C20: the oracle of the tool executes a proposal at most 3 times; it
\* answers true iff one of its executions matches, it makes no execution
\* after a match, and it answers false only after 3 executions none of
\* which matches.
C20_ToolOracle ==
    (pred = "tool" /\ ncalls > 0) =>
        /\ Len(execs) \in 1..3
        /\ last.ans <=> (\E n \in DOMAIN execs : Matches(execs[n]))
        /\ \A n \in 1..(Len(execs) - 1) : ~Matches(execs[n])
        /\ ~last.ans => Len(execs) = 3

\* The oracle answered true on its second execution, after a first that
\* produced no call results.
C20_Witness ==
    /\ pred = "tool"
    /\ ncalls > 0
    /\ last.ans
    /\ Len(execs) = 2
    /\ ~execs[1].nil
    /\ execs[1].calls = 0

\* Call a of prog influences the later call b under the matrix mat.
Influences(prog, mat, a, b) == a < b /\ mat[Id(prog, a)][Id(prog, b)] = 1

RECURSIVE InfluenceClosure(_, _, _)
\* The least set that holds S and every call that influences one of its
\* members.
InfluenceClosure(prog, mat, S) ==
    LET T == S \cup {j \in 0..(Len(prog) - 1) : \E x \in S : Influences(prog, mat, j, x)}
    IN  IF T = S THEN S ELSE InfluenceClosure(prog, mat, T)

\* The reference set R of the calls before the target k0.
Reference(prog, mat, k0) ==
    IF k0 < 0 THEN {}
    ELSE InfluenceClosure(prog, mat, {x \in 0..(k0 - 1) : Influences(prog, mat, x, k0)})

\* C21: the prefix positions the influence-guided prefix drop keeps are the
\* reference set R of P0, the matrix and k0; the step proposes nothing when
\* every position before k0 is in R, and else it calls the oracle once, on
\* the baseline without exactly the positions before k0 that are not in R,
\* with the target index k0 less the number of positions removed.
C21_PrefixDrop ==
    [][(pc = "front" /\ pc' = "pair") =>
          LET drop == (0..(K0 - 1)) \ Reference(P0, M0, K0)
          IN  /\ front = drop
              /\ k = K0
              /\ IF drop = {}
                 THEN ncalls' = ncalls
                 ELSE /\ ncalls' = ncalls + 1
                      /\ last'.kind = "front"
                      /\ last'.prog = RemoveCalls(p0, drop)
                      /\ last'.idx = K0 - Cardinality(drop)]_vars

\* An accepted prefix drop that removed a call and kept one that influences
\* the target only through another call.
C21_Witness ==
    /\ variant = "collect"
    /\ pc = "pair"
    /\ last.kind = "front"
    /\ last.ans
    /\ p0 = last.prog
    /\ \E j \in Reference(P0, M0, K0) : ~Influences(P0, M0, j, K0)

\* The call object of P0 that k0 designated: calls carry the position they
\* had in P0.
IsTarget(prog, idx) ==
    /\ idx \in 0..(Len(prog) - 1)
    /\ CallAt(prog, idx).uid = K0 + 1

\* C22: when a target call was given, the tracked index designates, in the
\* baseline at every point of the session and in every call-removal
\* proposal with the index passed to the oracle, the very call object of P0
\* that k0 designated; so the target is never among the calls removed and
\* the index went down by the number of calls removed below it.
C22_TargetObject ==
    (K0 \in 0..(Len(P0) - 1) /\ pc \notin Panics) =>
        /\ IsTarget(p0, k)
        /\ last.kind \in CallKinds => IsTarget(last.prog, last.idx)

\* The session returned the last of three calls, the second of which has
\* the same syscall, after both calls before it were removed.
C22_Witness ==
    /\ pc = "done"
    /\ Len(P0) = 3
    /\ K0 = 2
    /\ Id(P0, 1) = Id(P0, 2)
    /\ Len(p0) = 1
    /\ k = 0
    /\ CallAt(p0, 0).uid = 3

\* The condition of the suffix drop: a target call and at least two calls
\* after it.
SuffixDue == K0 >= 0 /\ Len(P0) - 1 - K0 >= 2

\* C23: the suffix drop is proposed iff k0 >= 0 and at least two calls
\* follow position k0; the proposal is the program up to and including
\* position k0, made in one oracle call with the index k0, and it is the
\* first oracle call of the session.
C23_SuffixDrop ==
    [][/\ (pc = "post" /\ pc' # "post" /\ SuffixDue) => (ncalls = 0 /\ ncalls' = 1)
       /\ ncalls' # ncalls =>
             /\ last'.kind = "post" <=> (ncalls = 0 /\ SuffixDue)
             /\ last'.kind = "post" =>
                   /\ p0 = P0
                   /\ last'.prog = SubSeq(P0, 1, K0 + 1)
                   /\ last'.idx = K0]_vars

\* The first oracle call of a session accepted the drop of the three calls
\* after the target.
C23_Witness ==
    /\ pc \in {"front", "unrelated"}
    /\ ncalls = 1
    /\ last.kind = "post"
    /\ last.ans
    /\ Len(P0) = K0 + 4
    /\ Len(p0) = K0 + 1

\* C24: in a session the matrix changes only in the rest of a pairwise
\* iteration whose removal of position i was rejected, with learning
\* enabled and the execution status reported, with i not the last position
\* of the baseline, with the hash of the proposal at i and the hash of the
\* baseline at i + 1 both nonzero and different, and with the entry of
\* (baseline[i], baseline[i + 1]) at 0; that entry becomes 1 and nothing
\* else changes.
C24_WriteOnlyWhen ==
    [][M' # M =>
          /\ pc = "learn"
          /\ last.kind = "pair"
          /\ ~last.ans
          /\ variant = "collect" /\ enable
          /\ last.status
          /\ i + 1 < Len(p0)
          /\ last.hp # 0 /\ last.hp0 # 0 /\ last.hp # last.hp0
          /\ M[Id(p0, i)][Id(p0, i + 1)] = 0
          /\ M'[Id(p0, i)][Id(p0, i + 1)] = 1
          /\ \A s, d \in SysIds :
                <<s, d>> # <<Id(p0, i), Id(p0, i + 1)>> => M'[s][d] = M[s][d]
          /\ p0' = p0]_vars

\* A session that started from the empty matrix learned that use_r
\* influences open_r, from a rejected removal.
C24_Witness ==
    /\ M0 = ZeroMatrix
    /\ M[2][1] = 1
    /\ pc = "pair"
    /\ last.kind = "pair"
    /\ ~last.ans

\* The producers the resource arguments of a call are about: the call's own
\* (an argument or the return value) and those its arguments refer to.
Producers(call) ==
    {al[1].id : al \in {x \in CallArgsWithLoc(call) : x[1].t = "resource" /\ x[1].id > 0}}
        \cup {al[1].ref : al \in {x \in CallArgsWithLoc(call) : x[1].t = "resource" /\ x[1].ref > 0}}
        \cup (IF call.ret > 0 THEN {call.ret} ELSE {})

RECURSIVE Unpadded(_)
Unpadded(d) == IF d # <<>> /\ d[Len(d)] = 0 THEN Unpadded(SubSeq(d, 1, Len(d) - 1)) ELSE d

\* The values of the filenames a call passes in.
InFiles(call) ==
    {Unpadded(al[1].data) :
        al \in {x \in CallArgsWithLoc(call) :
                  x[1].t = "buffer" /\ x[1].akind = "filename" /\ x[1].dir # "out"}}

\* Two calls share a resource argument or the value of an input filename.
Shares(c1, c2) ==
    \/ Producers(c1) \cap Producers(c2) # {}
    \/ InFiles(c1) \cap InFiles(c2) # {}

RECURSIVE ShareClosure(_, _)
ShareClosure(prog, S) ==
    LET T == S \cup {x \in 0..(Len(prog) - 1) :
                        \E y \in S : Shares(CallAt(prog, x), CallAt(prog, y))}
    IN  IF T = S THEN S ELSE ShareClosure(prog, T)

\* The calls of prog at the positions of keep, in their order.
Kept(prog, keep) ==
    SelectSeq(prog, LAMBDA c : \E x \in keep : CallAt(prog, x).uid = c.uid)

\* C25: removeUnrelatedCalls keeps the target and the closure of the calls
\* that share a resource argument or an input filename with a kept call; it
\* calls the oracle only when at least 3 calls are outside that set, once,
\* on the baseline reduced to the kept calls, with the position the target
\* has among them; an accepted proposal is returned with that index, a
\* rejected one leaves the program and the index as they were.
C25_Unrelated ==
    [][(pc = "unrelated" /\ pc' = "pair") =>
          IF k = -1
          THEN ncalls' = ncalls /\ p0' = p0 /\ k' = k
          ELSE LET keep == ShareClosure(p0, {k})
               IN  IF Len(p0) - Cardinality(keep) < 3
                   THEN ncalls' = ncalls /\ p0' = p0 /\ k' = k
                   ELSE /\ ncalls' = ncalls + 1
                        /\ last'.kind = "unrelated"
                        /\ last'.prog = Kept(p0, keep)
                        /\ last'.idx = Cardinality({x \in keep : x < k})
                        /\ IF last'.ans
                           THEN p0' = last'.prog /\ k' = last'.idx
                           ELSE p0' = p0 /\ k' = k]_vars

\* An accepted drop of three unrelated calls that kept a call before the
\* target which shares nothing with the target itself.
C25_Witness ==
    /\ variant = "syzmini"
    /\ pc = "pair"
    /\ last.kind = "unrelated"
    /\ last.ans
    /\ p0 = last.prog
    /\ Len(P0) = Len(p0) + 3
    /\ \E x \in 0..(k - 1) : ~Shares(CallAt(p0, x), CallAt(p0, k))

\* The schema of syscall c has an occurrence of resource r with one of the
\* directions ds.
Occurs(schemas, c, r, ds) ==
    \E o \in DOMAIN schemas[c] : schemas[c][o].res = r /\ schemas[c][o].dir \in ds

\* C26 as stated: after AnalyzeStaticInfluence the entry of (s, d) is 1 for
\* every resource and every two different syscalls s, d such that the schema
\* of s has the resource with direction Out and the schema of d has it with
\* direction In or InOut, whatever else their schemas hold; and the
\* diagonal is 0.
C26_StaticPairs ==
    host.pc = "analyzed" =>
        \A s, d \in DOMAIN host.schemas :
            /\ host.matrix[s][s] = 0
            /\ (/\ s # d
                /\ \E r \in Resources :
                      /\ Occurs(host.schemas, s, r, {"out"})
                      /\ Occurs(host.schemas, d, r, {"in", "inout"}))
                  => host.matrix[s][d] = 1

\* C27 as stated: when main goes on to load the corpus, the number of ones
\* it has zeroed is (100 - p)/100 of the n ones, rounded down; all of them
\* for p = 0 and none for p = 100.
C27_FractionZeroed ==
    host.pc \in {"load", "loop"} =>
        host.zeroed = (host.ones * (100 - host.proportion)) \div 100

\* C28: with 0 < p < 100 and floor(n/100) * (100 - p) = 0, main returns at
\* the dithering: it zeroes nothing, never loads the corpus and starts no
\* worker.
C28_EarlyReturn ==
    (/\ host.pc # "off"
     /\ 0 < host.proportion /\ host.proportion < 100
     /\ (host.ones \div 100) * (100 - host.proportion) = 0) =>
        (host.pc \in {"analyzed", "exit"} /\ host.zeroed = 0)

\* main has returned on a matrix with 99 ones and p = 50.
C28_Witness ==
    /\ host.pc = "exit"
    /\ host.ones = 99
    /\ host.proportion = 50
    /\ host.zeroed = 0

\* C29: no oracle call is made on a proposal that equals the baseline of
\* the moment; a session on one call that holds nothing to shrink (integers
\* at their defaults, a resource without producer, a pointer without
\* pointee, a normalized filename, default call properties, no call to
\* remove) makes no oracle call at all, and a session on a blob at its
\* minimum length makes none but the one for its pointer.
C29_NoNoopProposal ==
    /\ []((P0 \in MinimalPrograms /\ K0 = 0) => ncalls = 0)
    /\ []((P0 = MinimalBlob /\ K0 = 0) => (ncalls <= 1 /\ last.kind \in {"none", "ptr"}))
    /\ [][ncalls' = ncalls + 1 => last'.prog # p0]_vars

\* The session on st_s with every field at its default has returned
\* without an oracle call.
C29_Witness ==
    /\ P0 = MinimalStruct
    /\ K0 = 0
    /\ pc = "done"
    /\ ncalls = 0
    /\ p0 = P0

\* C30: the two panics of minimizeArgsCtx.do are never reached and the
\* baseline never is the object of the working copy; every step of the
\* argument traversal that commits a new baseline leaves the traversal with
\* a working copy that is a fresh clone of it, and a step whose proposal
\* the oracle rejected leaves the baseline as it was.
C30_NoSharedBaseline ==
    /\ [](pc \notin {SharedPanic, StalePanic} /\ ~aliased)
    /\ [][(pc \in {"walk", "blob", "blobend"} /\ p0' # p0) => p' = Clone(p0')]_vars
    /\ [][(pc = "walk" /\ ncalls' = ncalls + 1 /\ ~last'.ans) => p0' = p0]_vars

\* minimizeInt committed an integer at its default and the traversal of the
\* engine of minimization.go went on with a clone of the new baseline.
C30_Witness ==
    /\ variant = "collect"
    /\ pc = "walk"
    /\ last.kind = "int"
    /\ last.ans
    /\ p0 = last.prog
    /\ p = p0
    /\ ~aliased

\* The step the traversal of call ci of prog is about to try, applied to
\* prog; inside the halving loop of a blob, the trim by the current step.
OneStepFrom(prog, ci) ==
    IF pc = "blob"
    THEN SetData(prog, ci, blob.loc,
                 Len(GetIn(CallAt(prog, ci).args, blob.loc).data) - blob.step)
    ELSE Apply(prog, ci, WalkFrom(CallAt(prog, ci).args, 1, tried))

\* C31 as stated: at every argument-level oracle call the proposal is the
\* baseline with the one step being tried.
C31_OneStepFromBaseline ==
    [][(ncalls' = ncalls + 1 /\ last'.kind \in ArgKinds)
          => last'.prog = OneStepFrom(p0, i)]_vars

\* C31, amended: at every argument-level oracle call the proposal is the
\* last program the oracle accepted (the input if none) with the one step
\* being tried; that program is the baseline except inside the halving loop
\* of a blob, where accepted trims stay uncommitted until the loop ends.
\* After every step the working copy again holds the content of that
\* program: restored by a rejected integer reset without patch and by a
\* rejected trim, a fresh clone of the baseline after every other step.
C31_OneStep ==
    /\ [](pc \in {"walk", "blob", "blobend"} => p = okProg)
    /\ [](pc = "walk" => p0 = okProg)
    /\ [][(ncalls' = ncalls + 1 /\ last'.kind \in ArgKinds)
              => last'.prog = OneStepFrom(okProg, i)]_vars
    /\ [][(ncalls' = ncalls + 1 /\ last'.kind \in ArgKinds \ {"blob"})
              => (p = p0 /\ p' = p0')]_vars

\* A trim was rejected after an earlier trim of the same loop was accepted:
\* the working copy is back at the accepted length, the baseline still has
\* the blob of the entry.
C31_Witness ==
    /\ pc \in {"blob", "blobend"}
    /\ last.kind = "blob"
    /\ ~last.ans
    /\ p = okProg
    /\ p # p0

\* The shrink step the next traversal of call i attempts, if any.
NextStep == WalkFrom(CallAt(p, i).args, 1, tried)

\* C32: within the minimization of one call every shrink attempt is made at
\* a key that is not marked tried, the key is marked when the attempt is
\* over (for a blob: when its halving loop is over), and marks are never
\* removed while the call is minimized, restarts included; so no key gives
\* rise to a second attempt.
C32_TriedOnce ==
    /\ [][(pc = "walk" /\ ncalls' = ncalls + 1)
              => (NextStep.key \notin tried /\ NextStep.key \in tried')]_vars
    /\ [][(pc = "walk" /\ pc' = "blob") => blob'.key \notin tried]_vars
    /\ [][(pc = "blobend") => (blob.key \in tried')]_vars
    /\ [][(pc \in {"walk", "blob", "blobend"}) => (tried \subseteq tried')]_vars

\* After a rejected step the traversal was restarted and now goes for a
\* step at another key, the rejected one being marked.
C32_Witness ==
    /\ pc = "walk"
    /\ last.kind \in ArgKinds
    /\ ~last.ans
    /\ tried # {}
    /\ NextStep.hit
    /\ NextStep.key \notin tried

\* The step just taken committed a change of the argument structure of the
\* call, or reset an integer with a conditional patch.
StructuralCommit == last'.ans /\ last'.kind \in Structural
ConditionalPatch == last'.kind = "int" /\ GetIn(CallAt(p, i).args, NextStep.loc).cond

\* C33 as stated: the tried paths of a call are emptied exactly at the steps
\* that commit a structural change or patch conditional fields.
C33_ResetOnStructure ==
    [][(pc = "walk" /\ ncalls' = ncalls + 1)
          => ((tried' = {}) <=> (StructuralCommit \/ ConditionalPatch))]_vars

\* C33, amended: the tried paths of a call are empty when the minimization
\* of that call begins and nothing empties them until it ends: a step that
\* commits a structural change or patches conditional fields leaves every
\* mark in place and adds its own.
C33_NeverReset ==
    /\ [][(pc = "args" /\ pc' = "walk") => tried' = {}]_vars
    /\ [][(pc \in {"walk", "blob", "blobend"}) => (tried \subseteq tried')]_vars
    /\ [][(pc = "walk" /\ ncalls' = ncalls + 1 /\ (StructuralCommit \/ ConditionalPatch))
              => (tried \cup {NextStep.key} \subseteq tried')]_vars

\* An array element was removed while the mark of a removal rejected before
\* it is still there.
C33_Witness ==
    /\ pc = "walk"
    /\ last.kind = "elem"
    /\ last.ans
    /\ p0 = last.prog
    /\ Cardinality(tried) >= 2

RECURSIVE PtrKeysFrom(_, _, _)
\* The ">" keys of the pointers on the way from arg, which ctx.do visits
\* under path, down to the argument at rest below it (arg itself included,
\* the argument at the end not).
PtrKeysFrom(arg, path, rest) ==
    IF rest = <<>> THEN {}
    ELSE LET child == arg.inner[rest[1]]
             below == CASE arg.t = "array" -> path \o <<ToString(rest[1] - 1), "">>
                        [] arg.t = "ptr" -> Append(path, "")
                        [] OTHER -> Append(path, child.name)
         IN  (IF arg.t = "ptr" THEN {Append(path, ">")} ELSE {})
                 \cup PtrKeysFrom(child, below, Tail(rest))

\* The ">" keys of the pointers above the argument at loc of a call.
PtrKeysAbove(args, loc) == PtrKeysFrom(args[loc[1]], <<args[loc[1]].name>>, Tail(loc))

\* C34: a step below a pointer is attempted only when the ">" key of that
\* pointer is marked, i.e. in a traversal after the one that proposed NULL
\* for it; the NULL proposal is made at an unmarked ">" key of a pointer
\* with a pointee, takes the pointee away, and marks the key; when it is
\* accepted the baseline has no pointee left to enter.
C34_NullFirst ==
    /\ [][(pc = "walk" /\ (ncalls' = ncalls + 1 \/ pc' = "blob"))
              => PtrKeysAbove(CallAt(p, i).args, NextStep.loc) \subseteq tried]_vars
    /\ [][(pc = "walk" /\ ncalls' = ncalls + 1 /\ last'.kind = "ptr")
              => /\ NextStep.key[Len(NextStep.key)] = ">"
                 /\ NextStep.key \notin tried
                 /\ NextStep.key \in tried'
                 /\ GetIn(CallAt(p0, i).args, NextStep.loc).inner # <<>>
                 /\ GetIn(CallAt(last'.prog, i).args, NextStep.loc).inner = <<>>
                 /\ (last'.ans => p0' = last'.prog)
                 /\ (~last'.ans => p0' = p0)]_vars

\* The halving loop of the blob behind the pointer of write_b runs, the
\* NULL proposal for the pointer having been rejected before.
C34_Witness ==
    /\ pc = "blob"
    /\ last.kind = "blob"
    /\ <<"buf", ">">> \in tried
    /\ GetIn(CallAt(p0, i).args, <<1>>).inner # <<>>

\* C35: minimizeInt proposes the default only outside crash mode, for a
\* value that differs from it and, for a process id, only if the type is
\* optional; the path is marked whatever the answer; an accepted proposal
\* becomes the baseline, a rejected one leaves the baseline as it was; after
\* an accepted proposal and after a rejected one with patched = true the
\* traversal goes on with a fresh clone of the baseline, and after a rejected
\* one without patch with the working copy it had.
C35_IntRestart ==
    [][(pc = "walk" /\ ncalls' = ncalls + 1 /\ last'.kind = "int")
          => LET a == GetIn(CallAt(p, i).args, NextStep.loc)
             IN  /\ ~crash
                 /\ a.t \in {"int", "flags", "proc"}
                 /\ a.t = "proc" => a.opt
                 /\ a.val # a.def
                 /\ GetIn(CallAt(last'.prog, i).args, NextStep.loc).val = a.def
                 /\ NextStep.key \in tried'
                 /\ p0' = (IF last'.ans THEN last'.prog ELSE p0)
                 /\ p' = (IF last'.ans \/ a.cond THEN Clone(p0') ELSE p)
                 /\ pc' = "walk"]_vars

\* The reset of the conditional integer x of st_s was rejected: the
\* baseline keeps the value, the path is marked and the working copy is a
\* clone of the baseline.
C35_Witness ==
    /\ pc = "walk"
    /\ last.kind = "int"
    /\ ~last.ans
    /\ Name(CallAt(p0, i)) = "st_s"
    /\ GetIn(CallAt(last.prog, i).args, <<1, 1>>).val = 0
    /\ GetIn(CallAt(p0, i).args, <<1, 1>>).val = 5
    /\ <<"s", "x">> \in tried
    /\ p = p0

\* An array the whole-array step of part_000 applies to.
Emptiable(arg) == arg.t = "array" /\ Len(arg.inner) >= 3 /\ arg.lo = 0

RECURSIVE AllKeysFrom(_, _, _)
\* The whole-array keys of the emptiable arrays on the way from arg, which
\* ctx.do visits under path, down to the argument at rest below it (both
\* ends included).
AllKeysFrom(arg, path, rest) ==
    (IF Emptiable(arg) THEN {Append(path, "all")} ELSE {})
        \cup (IF rest = <<>> THEN {}
              ELSE LET child == arg.inner[rest[1]]
                       below == CASE arg.t = "array" -> path \o <<ToString(rest[1] - 1), "">>
                                  [] arg.t = "ptr" -> Append(path, "")
                                  [] OTHER -> Append(path, child.name)
                   IN  AllKeysFrom(child, below, Tail(rest)))

AllKeysAbove(args, loc) == AllKeysFrom(args[loc[1]], <<args[loc[1]].name>>, Tail(loc))

\* C36: in the engine of part_000 no element of an array of at least 3
\* elements with low bound 0 is removed or entered before the whole-array
\* key of that array is marked; the whole-array proposal is one oracle call
\* on the program with the array empty, at an unmarked key that it marks;
\* accepted, the baseline has the empty array; rejected, the baseline is as
\* it was.
C36_WholeArrayFirst ==
    /\ [][(variant = "syzmini" /\ pc = "walk" /\ (ncalls' = ncalls + 1 \/ pc' = "blob"))
              => AllKeysAbove(CallAt(p, i).args, NextStep.loc) \ {NextStep.key} \subseteq tried]_vars
    /\ [][(pc = "walk" /\ ncalls' = ncalls + 1 /\ last'.kind = "all")
              => /\ variant = "syzmini"
                 /\ Emptiable(GetIn(CallAt(p0, i).args, NextStep.loc))
                 /\ NextStep.key \notin tried
                 /\ NextStep.key \in tried'
                 /\ GetIn(CallAt(last'.prog, i).args, NextStep.loc).inner = <<>>
                 /\ p0' = (IF last'.ans THEN last'.prog ELSE p0)]_vars

\* The array a of arr_a, of MaxElems elements at the entry, is empty in the
\* baseline after one accepted proposal on this call.
C36_Witness ==
    /\ variant = "syzmini"
    /\ pc = "walk"
    /\ last.kind = "all"
    /\ last.ans
    /\ Name(CallAt(p0, i)) = "arr_a"
    /\ Len(GetIn(CallAt(P0, i).args, <<1>>).inner) = MaxElems
    /\ GetIn(CallAt(p0, i).args, <<1>>).inner = <<>>
    /\ tried = {<<"a", "all">>}

\* The filename argument of the only call of a program of SpecFile.
FileOf(prog) == prog[1].args[1]

\* d without the terminator that Normalize appends.
Stem(d, noz) == IF noz THEN d ELSE SubSeq(d, 1, Len(d) - 1)

\* C37: for every filename d of the sessions, with N the normalized bytes:
\* N without its terminator is d up to its last byte that is neither pad
\* nor NUL; N ends in exactly one NUL when a terminator is allowed;
\* normalizing N gives N.  The normalized bytes are proposed only for a
\* filename of variable length that differs from them, at most once in a
\* session, and committed iff accepted; a filename of fixed length is the
\* same in every baseline.
C37_FilenameNormal ==
    /\ [](LET a == FileOf(P0)
              N == Normalize(a.data, a.noz)
              S == Stem(N, a.noz)
          IN  /\ Len(S) <= Len(a.data)
              /\ S = SubSeq(a.data, 1, Len(S))
              /\ S # <<>> => S[Len(S)] \notin {NUL, PadByte}
              /\ \A x \in (Len(S) + 1)..Len(a.data) : a.data[x] \in {NUL, PadByte}
              /\ ~a.noz => (N # <<>> /\ N[Len(N)] = NUL /\ (Len(N) > 1 => N[Len(N) - 1] # NUL))
              /\ Normalize(N, a.noz) = N)
    /\ []((~FileOf(P0).varlen /\ Len(p0) = 1) => FileOf(p0).data = FileOf(P0).data)
    /\ [][(ncalls' = ncalls + 1 /\ last'.kind = "fname")
              => /\ FileOf(p0).varlen
                 /\ FileOf(last'.prog).data = Normalize(FileOf(p0).data, FileOf(p0).noz)
                 /\ FileOf(last'.prog).data # FileOf(p0).data
                 /\ last.kind # "fname"
                 /\ NextStep.key \notin tried
                 /\ NextStep.key \in tried'
                 /\ p0' = (IF last'.ans THEN last'.prog ELSE p0)]_vars

\* A filename that ended in pad bytes and NULs is committed with one NUL
\* after its last other byte.
C37_Witness ==
    /\ pc = "done"
    /\ Len(p0) = 1
    /\ last.kind = "fname"
    /\ last.ans
    /\ FileOf(P0).data = <<Ch, PadByte, NUL, PadByte>>
    /\ FileOf(p0).data = <<Ch, NUL>>

\* The knobs in the order of minimizeCallProps.
KnobNo(kind) == CASE kind = "failnth" -> 1 [] kind = "async" -> 2 [] kind = "rerun" -> 3

\* Knob n of props is at its default.
KnobDefault(pr, n) ==
    CASE n = 1 -> pr.FailNth = 0 [] n = 2 -> ~pr.Async [] n = 3 -> pr.Rerun = 0

\* pr and qr are the same but for knob n.
SameButKnob(pr, qr, n) ==
    /\ n # 1 => qr.FailNth = pr.FailNth
    /\ n # 2 => qr.Async = pr.Async
    /\ n # 3 => qr.Rerun = pr.Rerun

\* C38: minimizeCallProps goes through fail_nth, async and rerun in this
\* order; a knob gets an oracle call only if it was off its default in the
\* baseline at entry; the proposal is the current baseline with that one
\* knob of that one call at its default and becomes the baseline iff it is
\* accepted; a knob without oracle call leaves the baseline alone.  So at
\* the return every knob is at its default or had its reset rejected, and
\* nothing else differs from the baseline at entry.
C38_CallProps ==
    /\ [][(pc = "props" /\ ncalls' = ncalls + 1)
              => LET n == KnobNo(last'.kind)
                     q == last'.prog
                 IN  /\ last'.kind \in PropKinds
                     /\ n = props.knob
                     /\ ~KnobDefault(props.entry, n)
                     /\ Len(q) = Len(p0)
                     /\ \A c \in 1..Len(p0) : c # i + 1 => q[c] = p0[c]
                     /\ q[i + 1].args = p0[i + 1].args
                     /\ q[i + 1].meta = p0[i + 1].meta
                     /\ KnobDefault(q[i + 1].props, n)
                     /\ SameButKnob(p0[i + 1].props, q[i + 1].props, n)
                     /\ p0' = (IF last'.ans THEN q ELSE p0)]_vars
    /\ [][(pc = "props" /\ ncalls' = ncalls) => (p0' = p0 /\ KnobDefault(props.entry, props.knob))]_vars
    /\ [][(pc = "props") => (props'.knob = props.knob + 1 \/ (props.knob = 3 /\ pc' = "args"))]_vars
    /\ [](pc = "props" => \A n \in 1..(props.knob - 1) :
              KnobDefault(props.entry, n) => KnobDefault(CallAt(p0, i).props, n))

\* minimizeCallProps has returned for st_s: the reset of fail_nth was
\* rejected, those of async and rerun were accepted.
C38_Witness ==
    /\ variant = "collect"
    /\ pc = "args"
    /\ i >= 1
    /\ last.kind = "rerun"
    /\ last.ans
    /\ Name(CallAt(p0, i - 1)) = "st_s"
    /\ CallAt(p0, i - 1).props = [FailNth |-> 2, Async |-> FALSE, Rerun |-> 0]

\* C39: in a session entered with k0 = -1 there is no suffix-drop,
\* prefix-drop or unrelated-call proposal; the pairwise stage starts at the
\* last call and makes one proposal, the removal of that call, for every
\* position down to 0; every oracle call is given the index -1, the index
\* stays -1 and is the one returned; Minimize returns, and under the oracle
\* that accepts everything it returns the program without calls.
C39_NoTarget ==
    /\ [](last.kind \notin {"post", "front", "unrelated"})
    /\ [](post = {} /\ front = {})
    /\ [](k = -1 /\ (ncalls > 0 => last.idx = -1))
    /\ [](pc \notin Panics)
    /\ [](pc = "done" => (Outcome.returned /\ Outcome.idx = -1))
    /\ []((pc = "done" /\ pred = "accept") => Outcome.prog = <<>>)
    /\ [][(pc \in {"front", "unrelated"}) => (pc' = "pair" /\ i' = Len(p0) - 1 /\ p0' = p0)]_vars
    /\ [][(pc = "pair" /\ i >= 0)
              => (ncalls' = ncalls + 1 /\ last'.kind = "pair" /\ last'.prog = RemoveCall(p0, i)
                  /\ pc' = "learn" /\ i' = i)]_vars
    /\ [][(pc = "learn") => (pc' = "pair" /\ i' = i - 1
                               /\ p0' = (IF last.ans THEN last.prog ELSE p0))]_vars

\* A session on three or more calls has returned the empty program after
\* one accepted removal per call and no other oracle call.
C39_Witness ==
    /\ K0 = -1
    /\ pred = "accept"
    /\ pc = "done"
    /\ Len(P0) >= 3
    /\ p0 = <<>>
    /\ k = -1
    /\ ncalls = Len(P0)
    /\ last.kind = "pair"

====
